---- MODULE Spec2Model ----
(***************************************************************************)
(* Model of the MWA subfile toolkit ("subtool"): the subfile writer        *)
(* (write_subfile) with its passthrough, remap and repoint data paths, the *)
(* integer-sample time shift (time_shift), the block cache, the header and *)
(* delay-table codecs and the in-place v1 -> v2 upgrade.                   *)
(*                                                                         *)
(* Data blocks and the margin are arrays of 16-bit elements (one complex   *)
(* 8-bit sample per element), exactly as the repoint engine views them.    *)
(* Block 0 (delay table, packet map, margin) is an array of bytes.  The    *)
(* 4096-byte header is kept as one cell; offsets at or beyond              *)
(* header_length index the bytes that follow it.                           *)
(***************************************************************************)
EXTENDS Integers, Sequences, FiniteSets, TLC

VARIABLES
  desc,          \* the OutputDescriptor handed to write_subfile
  infile,        \* the input subfile: block 0 bytes, data blocks, failing block
  pc,            \* position inside write_subfile
  blockNum,      \* loop counter of the running block loop
  lastBlock,     \* repoint window: previous block (NULL before block 2)
  currentBlock,  \* repoint window: block being shifted
  nextBlock,     \* repoint window: following block
  outfile,       \* chunks that have reached the output file, in file order
  inflight,      \* writes issued on the output file and not yet completed
  result,        \* what write_subfile returned: "none", "ok", "err", "threw"
  pass,          \* 1 for the first run, 2 for a repoint of the first run's output
  orig,          \* the data blocks of the very first input (for round trips)
  kept,          \* pass 2 only: the margin of pass 1 was carried through unchanged
  handle,        \* the output FileHandle: "none", "open", "closing", "closed"
  rlog,          \* repoint: the read_block and time_shift calls made so far, in order
  cache,         \* the Cache object: entries (head first), used, capacity, stats
  hist,          \* the cache operations performed so far, with what each returned
  prev,          \* the Cache object as it was before the last operation
  ctx_file,      \* the subfile opened 'r+' by the upgrade command: header lines, body bytes
  ctx_meta,      \* the Metadata object of the open subfile
  upc,           \* position inside load_subfile / upgrade_delay_table
  ulocal,        \* locals of upgrade_delay_table: the udpmap and margin buffers read
  uresult,       \* what the last call of upgrade_delay_table returned
  ucalls,        \* number of calls of upgrade_delay_table on the open subfile
  wlog,          \* the file.write calls of the current call: position and length
  ufile0,        \* the file as it was when the current call began
  meta0,         \* the Metadata object as it was when the current call began
  uorig,         \* the file and the Metadata object as load_subfile left them
  rsIn,          \* resample: the input subfile, its Metadata, the rules and the region
  rsPc,          \* position inside resample
  rsBlock,       \* loop counter blockNum of resample
  rsOut,         \* the blocks resample has written to the output file, in order
  rsCalls,       \* the transform calls made for the block written last
  rsResult,      \* what resample returned: "none", "ok", "err"
  codecIn,       \* codecs: the value handed to the function under study
  codecPc,       \* codecs: which function is applied next
  codecOut       \* codecs: what the function returned

writerVars == <<desc, infile, pc, blockNum, lastBlock, currentBlock, nextBlock,
                outfile, inflight, result, pass, orig, kept, handle, rlog>>

cacheVars == <<cache, hist, prev>>

upgradeVars == <<ctx_file, ctx_meta, upc, ulocal, uresult, ucalls, wlog, ufile0, meta0, uorig>>

resampleVars == <<rsIn, rsPc, rsBlock, rsOut, rsCalls, rsResult>>

codecVars == <<codecIn, codecPc, codecOut>>

vars == <<writerVars, cacheVars, upgradeVars, resampleVars, codecVars>>

(* What each part of the program leaves alone. *)
notWriterVars == <<cacheVars, upgradeVars, resampleVars, codecVars>>

notCacheVars == <<writerVars, upgradeVars, resampleVars, codecVars>>

notUpgradeVars == <<writerVars, cacheVars, resampleVars, codecVars>>

notResampleVars == <<writerVars, cacheVars, upgradeVars, codecVars>>

notCodecVars == <<writerVars, cacheVars, upgradeVars, resampleVars>>

----------------------------------------------------------------------------
(* Bounds *)

MaxBlocks == 3
MaxDelay == 2
MaxOps == 5
MaxCalls == 2

(* Program constants *)

header_length == 4096

NULL == <<>>

----------------------------------------------------------------------------
(* Small helpers *)

Max(a, b) == IF a >= b THEN a ELSE b

Min(a, b) == IF a <= b THEN a ELSE b

Abs(a) == IF a < 0 THEN -a ELSE a

Zeros(n) == [i \in 1..n |-> 0]

(* TypedArray.prototype.subarray / Buffer index resolution: a negative index
   counts from the end, every index is clamped to [0, len]. *)
RelIndex(len, k) == IF k < 0 THEN Max(len + k, 0) ELSE Min(k, len)

(* The element range [lo, hi) that a.subarray(begin, end) views. *)
View(len, begin, end) ==
  [lo |-> RelIndex(len, begin),
   hi |-> Max(RelIndex(len, begin), RelIndex(len, end))]

subarray(a, begin, end) ==
  LET v == View(Len(a), begin, end) IN SubSeq(a, v.lo + 1, v.hi)

(* dst.subarray(v).set(src): RangeError when src is longer than the view. *)
SetThrows(v, src) == Len(src) > v.hi - v.lo

SetView(line, v, src) ==
  [i \in 1..Len(line) |->
     IF i > v.lo /\ i <= v.lo + Len(src) THEN src[i - v.lo] ELSE line[i]]

----------------------------------------------------------------------------
(* Metadata: the derived geometry of a subfile (load_subfile).  The header
   values NINPUTS, NTIMESAMPLES, MARGIN_SAMPLES and the quotient
   SAMPLE_RATE * SECS_PER_SUBOBS / NTIMESAMPLES are the arguments; the
   delay-table and packet-map lengths are taken as given. *)
MakeMeta(ns, spl, nb, ms, dtl, udl) ==
  [num_sources      |-> ns,
   samples_per_line |-> spl,
   blocks_per_sub   |-> nb,
   margin_samples   |-> ms,
   sub_line_size    |-> spl * 2,
   block_length     |-> spl * 2 * ns,
   header_offset    |-> 0,
   header_length    |-> header_length,
   dt_offset        |-> 4096,
   dt_length        |-> dtl,
   data_offset      |-> header_length + spl * 2 * ns,
   udpmap_offset    |-> 4096 + dtl,
   udpmap_length    |-> udl,
   margin_offset    |-> 4096 + dtl + udl,
   margin_length    |-> ns * ms * 2 * 2]

----------------------------------------------------------------------------
(* Repoint engine: time_shift *)

(* Get the head or tail margin samples for a given source index. *)
getMargin(id, data, meta, getHead) ==
  LET sz     == meta.margin_samples
      offset == IF getHead THEN 0 ELSE sz
  IN subarray(data, id * sz * 2 + offset, id * sz * 2 + offset + sz)

(* Get a single line from a block. *)
getLine(id, blockData, meta) ==
  subarray(blockData, id * meta.samples_per_line, (id + 1) * meta.samples_per_line)

(* The head of block blockId comes from the previous block. *)
head_from_prev(blockId) == blockId > 1

(* A faulty test: the tail comes from the next block for every block. *)
tail_from_next_always(blockId, meta) == blockId <= meta.blocks_per_sub

(* The tail of block blockId comes from the next block. *)
tail_from_next(blockId, meta) == blockId < meta.blocks_per_sub - 1

(* Source range of a block-1 head inside the head margin. *)
head_margin_range(N, M, meta) ==
  [begin |-> (meta.margin_samples \div 2) - N - M - 1,
   end   |-> (meta.margin_samples \div 2) - M - 1]

(* Source range of a last-block tail inside the tail margin. *)
tail_margin_range(N, M, meta) ==
  [begin |-> (meta.margin_samples \div 2) - M + 1,
   end   |-> (meta.margin_samples \div 2) - N - M + 1]

(* A faulty body offset: the body is read one sample too late. *)
body_src_offset_shifted(tailLength) == tailLength + 1

(* Offset of the body inside the source line. *)
body_src_offset(tailLength) == tailLength

(* One iteration of time_shift's loop over the sources: the output line of
   source index id, or a RangeError thrown by one of the three set() calls.
   dstLine starts zero-filled. *)
time_shift_line(blockId, id, srcBlock, srcPrev, srcNext, current, target, marginData, meta) ==
  LET spl        == meta.samples_per_line
      srcLine    == getLine(id, srcBlock, meta)
      dstLine    == Zeros(spl)
      M          == current[id + 1]
      N          == target[id + 1] - M
      headLength == Max(0, N)
      tailLength == Abs(Min(0, N))
      bodyLength == spl - headLength - tailLength
      srcBody    == subarray(srcLine, body_src_offset(tailLength),
                             body_src_offset(tailLength) + bodyLength)
      dstBody    == View(spl, headLength, headLength + bodyLength)
      withBody   == SetView(dstLine, dstBody, srcBody)
      dstHead    == View(spl, 0, headLength)
      hr         == head_margin_range(N, M, meta)
      srcHead    == IF head_from_prev(blockId)
                    THEN LET prevLine == getLine(id, srcPrev, meta)
                         IN subarray(prevLine, -headLength, Len(prevLine))
                    ELSE LET headMargin == getMargin(id, marginData, meta, TRUE)
                         IN subarray(headMargin, hr.begin, hr.end)
      dstTail    == View(spl, -tailLength, spl)
      tr         == tail_margin_range(N, M, meta)
      srcTail    == IF tail_from_next(blockId, meta)
                    THEN LET nextLine == getLine(id, srcNext, meta)
                         IN subarray(nextLine, 0, tailLength)
                    ELSE LET tailMargin == getMargin(id, marginData, meta, FALSE)
                         IN subarray(tailMargin, tr.begin, tr.end)
  IN IF SetThrows(dstBody, srcBody)
       THEN [threw |-> TRUE, line |-> dstLine]
     ELSE IF headLength > 0
       THEN [threw |-> SetThrows(dstHead, srcHead),
             line  |-> SetView(withBody, dstHead, srcHead)]
     ELSE IF tailLength > 0
       THEN [threw |-> SetThrows(dstTail, srcTail),
             line  |-> SetView(withBody, dstTail, srcTail)]
     ELSE [threw |-> FALSE, line |-> withBody]

(* time_shift: fills the zeroed output block line by line. *)
time_shift(blockId, srcBlock, srcPrev, srcNext, current, target, marginData, meta) ==
  LET nInputs == Len(current)
      spl     == meta.samples_per_line
      ln(id)  == time_shift_line(blockId, id, srcBlock, srcPrev, srcNext,
                                 current, target, marginData, meta)
  IN [threw |-> \E id \in 0..(nInputs - 1) : ln(id).threw,
      blk   |-> [k \in 1..(nInputs * spl) |->
                   ln((k - 1) \div spl).line[((k - 1) % spl) + 1]]]

----------------------------------------------------------------------------
(* Byte views *)

(* new Uint16Array(buf): little-endian pairs of bytes. *)
Uint16Array(bytes) ==
  [i \in 1..(Len(bytes) \div 2) |-> bytes[2 * i - 1] + 256 * bytes[2 * i]]

(* The bytes underlying a Uint16Array. *)
BytesOf(u16) ==
  [i \in 1..(2 * Len(u16)) |->
     IF i % 2 = 1 THEN u16[(i + 1) \div 2] % 256 ELSE u16[i \div 2] \div 256]

(* source.copy(target, targetStart, sourceStart, sourceEnd) of Node's Buffer:
   the copy is cropped to the source's end and to the target's end. *)
BufferCopy(target, content, targetStart, sourceStart, sourceEnd) ==
  LET src == SubSeq(content, sourceStart + 1, Min(sourceEnd, Len(content)))
      n   == Min(Len(src), Max(Len(target) - targetStart, 0))
  IN [i \in 1..Len(target) |->
        IF i > targetStart /\ i <= targetStart + n
        THEN src[i - targetStart] ELSE target[i]]

----------------------------------------------------------------------------
(* Reader *)

(* The bytes of the file that follow the header. *)
FileBody(f) ==
  LET RECURSIVE cat(_)
      cat(k) == IF k > Len(f.blocks) THEN <<>>
                ELSE BytesOf(f.blocks[k]) \o cat(k + 1)
  IN f.block0 \o cat(1)

(* A read that succeeds whatever the file holds. *)
read_block_unchecked(num, f, meta) == [status |-> "ok", value |-> f.blocks[num]]

(* Read a whole block: fails on a bad index and on a short read. *)
read_block(num, f, meta) ==
  IF num < 0 \/ num > meta.blocks_per_sub
    THEN [status |-> "err", value |-> NULL]
  ELSE IF f.failAt # 0 /\ num >= f.failAt
    THEN [status |-> "err", value |-> NULL]
  ELSE [status |-> "ok", value |-> f.blocks[num]]

(* Read section data: the bytes [offset, offset + length) of the file. *)
read_section(name, f, meta) ==
  LET position == CASE name = "dt"     -> meta.dt_offset
                    [] name = "udpmap" -> meta.udpmap_offset
                    [] name = "margin" -> meta.margin_offset
      length   == CASE name = "dt"     -> meta.dt_length
                    [] name = "udpmap" -> meta.udpmap_length
                    [] name = "margin" -> meta.margin_length
      body     == FileBody(f)
      first    == position - meta.header_length
  IN IF first + length > Len(body)
       THEN [status |-> "err", value |-> NULL]
     ELSE [status |-> "ok", value |-> SubSeq(body, first + 1, first + length)]

----------------------------------------------------------------------------
(* Subfile writer: write_subfile *)

(* The preamble buffer: header plus block 0, sections copied at their offsets
   into a zero-filled buffer. *)
make_preamble(meta, sections) ==
  LET b0 == Zeros(meta.block_length)
      b1 == BufferCopy(b0, sections.dt, meta.dt_offset - meta.header_length,
                       0, meta.dt_length)
      b2 == BufferCopy(b1, sections.udpmap, meta.udpmap_offset - meta.header_length,
                       0, meta.udpmap_length)
      b3 == BufferCopy(b2, sections.margin, meta.margin_offset - meta.header_length,
                       0, meta.margin_length)
  IN [kind |-> "preamble", num |-> 0, hdr |-> sections.header, buf |-> b3]

BlockChunk(num, samples) ==
  [kind |-> "block", num |-> num, hdr |-> <<>>, buf |-> samples]

(* The value of map[source] for a key the map does not have. *)
Undefined == 0 - 1

(* A faulty copy: the block goes out as it came in. *)
copy_block_without_remapping(inBlk, map, outputSources, meta) == inBlk

(* Copy each output line from the input line the source map names.  The
   output block is zero-filled before every call; an undefined line index
   makes get_line an empty view, and set() of it leaves the line as it is. *)
copy_block_with_remapping(inBlk, map, outputSources, meta) ==
  LET spl == meta.samples_per_line
      inputLine(outputLineIndex) ==
        LET inputLineIndex == map[outputSources[outputLineIndex + 1]]
        IN IF inputLineIndex = Undefined THEN <<>>
           ELSE getLine(inputLineIndex, inBlk, meta)
      outputLine(outputLineIndex) ==
        SetView(Zeros(spl), View(spl, 0, spl), inputLine(outputLineIndex))
  IN [k \in 1..(Len(outputSources) * spl) |->
        outputLine((k - 1) \div spl)[((k - 1) % spl) + 1]]

----------------------------------------------------------------------------
(* Inputs of the writer.

   Two geometries are explored.  "S1" is the micro geometry of the repoint
   test (2 sources, 4 samples per line, 8 margin samples), handed to the
   writer directly.  "P1" is a geometry whose delay table, packet map and
   margin fit inside block 0 with two spare bytes; its sections are read
   from the input file as the commands do. *)

Delays == (0 - MaxDelay)..MaxDelay

DelayTables == {<<a, b>> : a \in Delays, b \in Delays}

ZeroTable == <<0, 0>>

(* The delay tables of the input from which a repoint to a different table
   is explored; a repoint to the table the data already has is explored
   from every table. *)
FromTables == {ZeroTable, <<-1, 1>>, <<2, -2>>, <<-2, -1>>, <<1, 2>>}

SourceIds == <<10, 20>>

GeomMeta(geom, nb) ==
  IF geom = "S1" THEN MakeMeta(2, 4, nb, 8, 4, 2)
                 ELSE MakeMeta(2, 6, nb, 2, 4, 2)

(* Sample at stream position p (0-based) of source index s. *)
DataSample(s, p) == 4 + 100 * s + p

InputBlocks(meta) ==
  [b \in 1..meta.blocks_per_sub |->
     [k \in 1..(meta.num_sources * meta.samples_per_line) |->
        DataSample((k - 1) \div meta.samples_per_line,
                   (b - 1) * meta.samples_per_line + ((k - 1) % meta.samples_per_line))]]

(* Margin of the repoint test: head and tail of source 0, then of source 1. *)
LiteralMargin ==
  <<0, 1, 2, 3, 4, 5, 6, 7,   12, 13, 14, 15, 16, 17, 18, 19,
    100, 101, 102, 103, 104, 105, 106, 107,
    112, 113, 114, 115, 116, 117, 118, 119>>

(* A margin that continues the data of every source on both sides, for data
   that currently carries the whole-sample delays in table from. *)
StreamMargin(meta, from) ==
  LET ms   == meta.margin_samples
      last == meta.blocks_per_sub * meta.samples_per_line - 1
  IN [k \in 1..(meta.num_sources * ms * 2) |->
        LET s    == (k - 1) \div (2 * ms)
            r    == (k - 1) % (2 * ms)
        IN IF r < ms
           THEN (DataSample(s, r - ((ms \div 2) - 1) + from[s + 1])) % 65536
           ELSE (DataSample(s, last + (r - ms) - (ms \div 2) + from[s + 1])) % 65536]

DtBytes(meta) == [i \in 1..meta.dt_length |-> 200 + i]

UdpmapBytes(meta) == [i \in 1..meta.udpmap_length |-> 220 + i]

(* Block 0 of the input file; the bytes after the margin hold gap. *)
InputBlock0(meta, marginU16, gap) ==
  LET all == DtBytes(meta) \o UdpmapBytes(meta) \o BytesOf(marginU16)
  IN [i \in 1..meta.block_length |-> IF i <= Len(all) THEN all[i] ELSE gap]

InputFile(c) ==
  LET meta == GeomMeta(c.geom, c.nb)
      mg   == IF c.margin = "literal" THEN LiteralMargin
                                      ELSE StreamMargin(meta, c.from)
  IN [header |-> <<"HDR">>,
      block0 |-> InputBlock0(meta, mg, c.gap),
      blocks |-> InputBlocks(meta),
      failAt |-> c.failAt]

(* The ids a --map or --map-all option can name; 30 is not a source. *)
OptionIds == {10, 20, 30}

(* origMap of runReplace: the line index of every source, undefined for
   any other id. *)
origMap(sources) ==
  [id \in OptionIds |->
     IF \E i \in 1..Len(sources) : sources[i] = id
     THEN (CHOOSE i \in 1..Len(sources) : sources[i] = id) - 1
     ELSE Undefined]

RECURSIVE apply_replace_map(_, _, _)
apply_replace_map(pairs, remap, om) ==
  IF pairs = <<>> THEN remap
  ELSE apply_replace_map(Tail(pairs),
                         [remap EXCEPT ![Head(pairs)[1]] = om[Head(pairs)[2]]],
                         om)

(* The options of the replace command as parseCommand leaves them: null is
   the default of both. *)
NoOptions ==
  [replace_map_all |-> [isNull |-> TRUE, val |-> 0],
   replace_map     |-> [isNull |-> TRUE, val |-> <<>>]]

(* runReplace, lines 345-352: the source map built from the options, or the
   TypeError of iterating over null. *)
replace_remap(sources, opts) ==
  IF ~opts.replace_map_all.isNull
  THEN [threw |-> FALSE,
        remap |-> [id \in OptionIds |->
                     IF origMap(sources)[id] # Undefined
                     THEN origMap(sources)[opts.replace_map_all.val]
                     ELSE Undefined]]
  ELSE IF opts.replace_map.isNull
  THEN [threw |-> TRUE, remap |-> origMap(sources)]
  ELSE [threw |-> FALSE,
        remap |-> apply_replace_map(opts.replace_map.val, origMap(sources),
                                    origMap(sources))]

(* The descriptor a command builds for configuration c. *)
Descriptor(c) ==
  LET meta == GeomMeta(c.geom, c.nb)
      f    == InputFile(c)
      mg   == IF c.margin = "literal" THEN LiteralMargin
                                      ELSE StreamMargin(meta, c.from)
      mbuf == IF c.geom = "S1" THEN BytesOf(mg)
                               ELSE read_section("margin", f, meta).value
  IN [meta     |-> meta,
      sources  |-> SourceIds,
      mode     |-> c.mode,
      from     |-> c.from,
      to       |-> c.to,
      margin   |-> Uint16Array(mbuf),
      remap    |-> origMap(SourceIds),
      opts     |-> c.opts,
      sections |-> [header |-> f.header,
                    dt     |-> IF c.geom = "S1" THEN DtBytes(meta)
                               ELSE read_section("dt", f, meta).value,
                    udpmap |-> IF c.geom = "S1" THEN UdpmapBytes(meta)
                               ELSE read_section("udpmap", f, meta).value,
                    margin |-> mbuf,
                    data   |-> c.data]]

(* The pairs one --map entry can hold, and the option sets explored: no
   option, --map-all, --map with one or two entries, and both options. *)
MapPairs == {<<k, v>> : k \in {10, 20}, v \in OptionIds}

ReplaceOptions ==
  LET lists1 == {<<p>> : p \in MapPairs}
      lists2 == {<<p, q>> : p \in MapPairs, q \in MapPairs}
      all(a) == [isNull |-> FALSE, val |-> a]
      map(l) == [isNull |-> FALSE, val |-> l]
  IN    {NoOptions}
   \cup {[NoOptions EXCEPT !.replace_map_all = all(a)] : a \in OptionIds}
   \cup {[NoOptions EXCEPT !.replace_map = map(l)] : l \in lists1 \cup lists2}
   \cup {[replace_map_all |-> all(a), replace_map |-> map(l)] :
           a \in {10, 20}, l \in {<<<<10, 20>>>>}}

Base(mode, geom, nb, failAt) ==
  [geom |-> geom, mode |-> mode, nb |-> nb, failAt |-> failAt,
   from |-> ZeroTable, to |-> ZeroTable, margin |-> "stream", gap |-> 0,
   opts |-> NoOptions, data |-> TRUE]

Configs ==
  LET runs == {<<nb, k>> : nb \in 1..MaxBlocks, k \in 0..MaxBlocks}
      ok(r) == r[2] <= r[1]
  IN    {[Base("passthrough", g, r[1], r[2]) EXCEPT !.gap = gp, !.data = d] :
           g \in {"S1", "P1"}, r \in {x \in runs : ok(x)}, gp \in {0, 7},
           d \in BOOLEAN}
   \cup {[Base("remap", g, r[1], r[2]) EXCEPT !.opts = o] :
           g \in {"S1", "P1"}, r \in {x \in runs : ok(x)}, o \in ReplaceOptions}
   \cup {[Base("repoint", "S1", q[1][1], q[1][2])
             EXCEPT !.from = q[2], !.to = q[3], !.margin = q[4]] :
           q \in {x \in runs \X DelayTables \X DelayTables \X {"literal", "stream"} :
                    /\ ok(x[1])
                    /\ (x[1][2] = 0 \/ x[2] = ZeroTable)
                    /\ (x[3] = x[2] \/ x[2] \in FromTables)}}

----------------------------------------------------------------------------
(* Block cache.  An ArrayBuffer is a record of its byteLength and its
   content; entries[1] is the head of the entries array. *)

cache_create(capacity) ==
  [entries  |-> <<>>,
   used     |-> 0,
   capacity |-> capacity,
   stats    |-> [hits |-> 0, misses |-> 0, inserts |-> 0, deletes |-> 0,
                 flushes |-> 0, retained |-> 0, released |-> 0]]

(* Array.prototype.splice(index, 1) on a 1-based sequence. *)
splice(s, index) == SubSeq(s, 1, index - 1) \o SubSeq(s, index + 1, Len(s))

(* A faulty flush: it deletes the entry at the head of the array. *)
flush_victim_head(entries) == 1

(* The entry a flush deletes next: entries.pop() takes the last one. *)
flush_victim(entries) == Len(entries)

RECURSIVE flush_loop(_, _)
flush_loop(c, target) ==
  IF c.capacity - c.used < target /\ Len(c.entries) > 0
  THEN LET entry == c.entries[flush_victim(c.entries)]
       IN flush_loop([c EXCEPT !.entries = splice(@, flush_victim(c.entries)),
                               !.stats.released = @ + entry.buf.byteLength,
                               !.stats.deletes = @ + 1,
                               !.used = @ - entry.buf.byteLength],
                     target)
  ELSE c

(* Delete least-recently-used entries to free up space. *)
flush(c, target) == flush_loop([c EXCEPT !.stats.flushes = @ + 1], target)

(* A faulty add: it never flushes to make room for the new buffer. *)
cache_add_unflushed(key, buf, c) ==
  IF buf.byteLength > c.capacity
  THEN [cache |-> c, ret |-> FALSE]
  ELSE [cache |-> [c EXCEPT
                     !.entries = <<[key |-> key, buf |-> buf]>> \o @,
                     !.used = @ + buf.byteLength,
                     !.stats.inserts = @ + 1,
                     !.stats.retained = @ + buf.byteLength],
        ret   |-> TRUE]

(* Add a block to the cache: the cache afterwards and the value returned. *)
cache_add(key, buf, c) ==
  IF buf.byteLength > c.capacity
  THEN [cache |-> c, ret |-> FALSE]
  ELSE LET flushed == IF buf.byteLength > c.capacity - c.used
                      THEN flush(c, buf.byteLength) ELSE c
       IN [cache |-> [flushed EXCEPT
                        !.entries = <<[key |-> key, buf |-> buf]>> \o @,
                        !.used = @ + buf.byteLength,
                        !.stats.inserts = @ + 1,
                        !.stats.retained = @ + buf.byteLength],
           ret   |-> TRUE]

(* A faulty lookup: it finds the last entry with the key. *)
find_index_last(entries, key) ==
  LET found == {i \in 1..Len(entries) : entries[i].key = key}
  IN IF found = {} THEN 0 ELSE CHOOSE i \in found : \A j \in found : j <= i

(* entries.findIndex(entry => entry.key == key), 1-based; 0 when absent. *)
find_index(entries, key) ==
  LET found == {i \in 1..Len(entries) : entries[i].key = key}
  IN IF found = {} THEN 0 ELSE CHOOSE i \in found : \A j \in found : i <= j

NullBuffer == [byteLength |-> 0, content |-> <<>>]

(* Get a block from the cache, or null if not available: the cache
   afterwards and the value returned. *)
cache_get(key, c) ==
  LET index == find_index(c.entries, key)
  IN IF index # 0
     THEN LET entry == c.entries[index]
          IN [cache  |-> [c EXCEPT !.stats.hits = @ + 1,
                                   !.entries = <<entry>> \o splice(@, index)],
              isNull |-> FALSE,
              buf    |-> entry.buf]
     ELSE [cache  |-> [c EXCEPT !.stats.misses = @ + 1],
           isNull |-> TRUE,
           buf    |-> NullBuffer]

----------------------------------------------------------------------------
(* Resampler: resample and resample_block.  The resampler views a block
   and the margin as arrays of signed bytes: two per complex sample. *)

(* new Int8Array(buffer): every byte read as a signed number. *)
Int8Array(bytes) ==
  [i \in 1..Len(bytes) |-> IF bytes[i] >= 128 THEN bytes[i] - 256 ELSE bytes[i]]

(* Storing a number into an Int8Array element: ToInt8 wraps modulo 256. *)
ToInt8(n) == ((n + 128) % 256) - 128

(* Buffer.from(outBuf): the unsigned bytes under an Int8Array. *)
Uint8Of(int8s) == [i \in 1..Len(int8s) |-> int8s[i] % 256]

(* Math.round of the rational q.n / q.d: the nearest integer, a tie going
   towards plus infinity. *)
MathRound(q) == (2 * q.n + q.d) \div (2 * q.d)

(* Get the head or tail margin samples for a given source index. *)
get_margin(id, data, meta, getHead, includeOverlap) ==
  LET lineSz   == meta.margin_samples * 2
      position == id * lineSz * 2 + (IF getHead THEN 0 ELSE lineSz)
                    + (IF ~getHead /\ ~includeOverlap THEN lineSz \div 2 ELSE 0)
      length   == IF includeOverlap THEN lineSz ELSE lineSz \div 2
  IN subarray(data, position, position + length)

(* Get a single line from a block of signed bytes. *)
get_line(id, blockData, meta) ==
  subarray(blockData, id * meta.samples_per_line * 2,
                      (id + 1) * meta.samples_per_line * 2)

(* The window of samples before sample sampleIdx. *)
prevSamples(region, sampleIdx, curLine, prevLine) ==
  IF region = 0 THEN <<>>
  ELSE IF region <= sampleIdx
    THEN subarray(curLine, (sampleIdx - region) * 2, sampleIdx * 2)
  ELSE IF sampleIdx = 0
    THEN subarray(prevLine, (0 - region) * 2, Len(prevLine))
  ELSE subarray(prevLine, (sampleIdx - region) * 2, Len(prevLine))
         \o subarray(curLine, 0, sampleIdx * 2)

(* The window of samples after sample sampleIdx. *)
nextSamples(region, sampleIdx, curLine, nextLine, lineSz) ==
  IF region = 0 THEN <<>>
  ELSE IF region <= lineSz - sampleIdx
    THEN subarray(curLine, (sampleIdx + 1) * 2, (sampleIdx + region + 1) * 2)
  ELSE IF sampleIdx = lineSz - 1
    THEN subarray(nextLine, 0, region * 2)
  ELSE subarray(curLine, (sampleIdx + 1) * 2, Len(curLine))
         \o subarray(nextLine, 0, (region - (lineSz - sampleIdx - 1)) * 2)

(* A transform rule: the scale resampler with the factor n / d, or no rule
   for the source. *)
NoRule == [name |-> "none", n |-> 0, d |-> 1]

ScaleRule(n, d) == [name |-> "scale", n |-> n, d |-> d]

(* The function make_scale_resampler(scale) returns, applied to cur; the
   two components of its result are rationals. *)
make_scale_resampler(scale, cur) ==
  <<[n |-> cur[1] * scale.n, d |-> scale.d], [n |-> cur[2] * scale.n, d |-> scale.d]>>

(* A faulty copy of an unselected line: the line is left as it was. *)
copy_line_skipped(dstLine, curLine) == dstLine

(* dstLine.set(curLine) for a source that has no rule. *)
copy_line(dstLine, curLine) ==
  SetView(dstLine, View(Len(dstLine), 0, Len(dstLine)), curLine)

(* One iteration of the source loop of resample_block over a zero-filled
   output block: the destination line, and the arguments of every call of
   the transform. *)
resample_line(fns, region, rfSourceId, srcBlock, srcPrev, srcNext, marginData, meta) ==
  LET lineSz   == meta.samples_per_line
      dstLine  == Zeros(lineSz * 2)
      curLine  == get_line(rfSourceId, srcBlock, meta)
      prevLine == IF srcPrev # NULL THEN get_line(rfSourceId, srcPrev, meta)
                  ELSE get_margin(rfSourceId, marginData, meta, TRUE, FALSE)
      nextLine == IF srcNext # NULL THEN get_line(rfSourceId, srcNext, meta)
                  ELSE get_margin(rfSourceId, marginData, meta, FALSE, FALSE)
      fn       == fns[rfSourceId + 1]
      sample(sampleIdx)    == <<curLine[sampleIdx * 2 + 1], curLine[sampleIdx * 2 + 2]>>
      newSample(sampleIdx) == make_scale_resampler(fn, sample(sampleIdx))
  IN IF fn = NoRule
     THEN [line |-> copy_line(dstLine, curLine), calls |-> <<>>]
     ELSE [line  |-> [k \in 1..(lineSz * 2) |->
                        ToInt8(MathRound(newSample((k - 1) \div 2)[((k - 1) % 2) + 1]))],
           calls |-> [i \in 1..lineSz |->
                        [source |-> rfSourceId,
                         sampleIdx |-> i - 1,
                         prevW  |-> prevSamples(region, i - 1, curLine, prevLine),
                         cur    |-> sample(i - 1),
                         nextW  |-> nextSamples(region, i - 1, curLine, nextLine, lineSz),
                         result |-> newSample(i - 1)]]]

(* resample_block: the output block and the transform calls, source by
   source. *)
resample_block(fns, region, srcBlock, srcPrev, srcNext, marginData, meta) ==
  LET RECURSIVE go(_)
      go(id) ==
        IF id >= meta.num_sources THEN [block |-> <<>>, calls |-> <<>>]
        ELSE LET one  == resample_line(fns, region, id, srcBlock, srcPrev,
                                       srcNext, marginData, meta)
                 rest == go(id + 1)
             IN [block |-> one.line \o rest.block, calls |-> one.calls \o rest.calls]
  IN go(0)

(* await_all: the results in order, or the first failure. *)
await_all(tasks) ==
  IF \E i \in 1..Len(tasks) : tasks[i].status # "ok"
    THEN [status |-> "err", value |-> NULL]
  ELSE [status |-> "ok", value |-> [i \in 1..Len(tasks) |-> tasks[i].value]]

(* Read a whole block, returning null if the block number is out of bounds
   or zero. *)
read_block_or_null(idx, f, meta) ==
  IF idx <= 0 \/ idx > meta.blocks_per_sub
    THEN [status |-> "ok", value |-> NULL]
  ELSE read_block(idx, f, meta)

----------------------------------------------------------------------------
(* Each part of the program is explored by a specification of its own; the
   variables of the other parts rest at these values. *)

WriterIdle ==
  /\ desc = NULL
  /\ infile = NULL
  /\ pc = "idle"
  /\ blockNum = 0
  /\ lastBlock = NULL
  /\ currentBlock = NULL
  /\ nextBlock = NULL
  /\ outfile = <<>>
  /\ inflight = <<>>
  /\ result = "none"
  /\ pass = 0
  /\ orig = NULL
  /\ kept = FALSE
  /\ handle = "none"
  /\ rlog = <<>>

CacheIdle ==
  /\ cache = cache_create(0)
  /\ hist = <<>>
  /\ prev = cache_create(0)

ResampleIdle ==
  /\ rsIn = NULL
  /\ rsPc = "idle"
  /\ rsBlock = 0
  /\ rsOut = <<>>
  /\ rsCalls = <<>>
  /\ rsResult = "none"

CodecIdle ==
  /\ codecIn = NULL
  /\ codecPc = "idle"
  /\ codecOut = NULL

UpgradeIdle ==
  /\ ctx_file = NULL
  /\ ctx_meta = NULL
  /\ upc = "idle"
  /\ ulocal = NULL
  /\ uresult = "none"
  /\ ucalls = 0
  /\ wlog = <<>>
  /\ ufile0 = NULL
  /\ meta0 = NULL
  /\ uorig = NULL

----------------------------------------------------------------------------
(* write_subfile as a state machine *)

WriterInit ==
  \E c \in Configs :
    /\ desc = Descriptor(c)
    /\ infile = InputFile(c)
    /\ pc = IF c.mode = "remap" THEN "replace" ELSE "start"
    /\ blockNum = 0
    /\ lastBlock = NULL
    /\ currentBlock = NULL
    /\ nextBlock = NULL
    /\ outfile = <<>>
    /\ inflight = <<>>
    /\ result = "none"
    /\ pass = 1
    /\ orig = InputFile(c).blocks
    /\ kept = TRUE
    /\ handle = "none"
    /\ rlog = <<>>
    /\ CacheIdle
    /\ UpgradeIdle
    /\ ResampleIdle
    /\ CodecIdle

(* runReplace between the section reads and write_subfile: the identity
   map is overridden from the options. *)
RunReplace ==
  /\ UNCHANGED notWriterVars
  /\ pc = "replace"
  /\ LET r == replace_remap(desc.sources, desc.opts)
     IN IF r.threw
        THEN pc' = "returned" /\ result' = "threw" /\ UNCHANGED desc
        ELSE pc' = "start" /\ desc' = [desc EXCEPT !.remap = r.remap]
                          /\ UNCHANGED result
  /\ UNCHANGED <<infile, blockNum, lastBlock, currentBlock, nextBlock, outfile,
                 inflight, pass, orig, kept, handle, rlog>>

(* fs.open, then file.write(preamble) without await, then the dispatch on
   the descriptor. *)
WriteSubfileStart ==
  /\ UNCHANGED notWriterVars
  /\ pc = "start"
  /\ inflight' = Append(inflight, make_preamble(desc.meta, desc.sections))
  /\ pc' = IF ~desc.sections.data THEN "close"
           ELSE IF desc.mode = "remap" THEN "remap"
           ELSE IF desc.mode = "repoint" THEN "repoint_first"
           ELSE "passthrough"
  /\ blockNum' = 1
  /\ handle' = "open"
  /\ UNCHANGED <<desc, infile, lastBlock, currentBlock, nextBlock, outfile,
                 result, pass, orig, kept, rlog>>

(* A write that was issued and not awaited reaches the file. *)
WriteCompletes ==
  /\ UNCHANGED notWriterVars
  /\ inflight # <<>>
  /\ outfile' = Append(outfile, Head(inflight))
  /\ inflight' = Tail(inflight)
  /\ UNCHANGED <<desc, infile, pc, blockNum, lastBlock, currentBlock, nextBlock,
                 result, pass, orig, kept, handle, rlog>>

(* One iteration of the passthrough loop. *)
PassthroughBlock ==
  /\ UNCHANGED notWriterVars
  /\ pc = "passthrough"
  /\ blockNum <= desc.meta.blocks_per_sub
  /\ LET blockResult == read_block(blockNum, infile, desc.meta)
     IN IF blockResult.status # "ok"
        THEN /\ pc' = "returned"
             /\ result' = "err"
             /\ UNCHANGED <<outfile, blockNum>>
        ELSE /\ outfile' = Append(outfile, BlockChunk(blockNum, blockResult.value))
             /\ blockNum' = blockNum + 1
             /\ UNCHANGED <<pc, result>>
  /\ UNCHANGED <<desc, infile, lastBlock, currentBlock, nextBlock, inflight, pass, orig, kept, handle, rlog>>

(* One iteration of the remap loop. *)
RemapBlock ==
  /\ UNCHANGED notWriterVars
  /\ pc = "remap"
  /\ blockNum <= desc.meta.blocks_per_sub
  /\ LET blockResult == read_block(blockNum, infile, desc.meta)
     IN IF blockResult.status # "ok"
        THEN /\ pc' = "returned"
             /\ result' = "err"
             /\ UNCHANGED <<outfile, blockNum>>
        ELSE /\ outfile' = Append(outfile,
                  BlockChunk(blockNum,
                    copy_block_with_remapping(blockResult.value, desc.remap,
                                              desc.sources, desc.meta)))
             /\ blockNum' = blockNum + 1
             /\ UNCHANGED <<pc, result>>
  /\ UNCHANGED <<desc, infile, lastBlock, currentBlock, nextBlock, inflight, pass, orig, kept, handle, rlog>>

(* A call read_block(num, infile, meta) of write_time_shifted_data. *)
ReadCall(num) ==
  [op |-> "read", num |-> num, srcBlock |-> NULL, srcPrev |-> NULL,
   srcNext |-> NULL, nextRead |-> FALSE]

(* time_shift reads from srcNext: some source's shift is negative, so that
   its line has a tail, and the tail is taken from the next block. *)
reads_srcNext(blockId, current, target, meta) ==
  \E id \in 0..(Len(current) - 1) :
    LET N == target[id + 1] - current[id + 1]
    IN Max(0, N) = 0 /\ Abs(Min(0, N)) > 0 /\ tail_from_next(blockId, meta)

(* A call time_shift(blockId, srcBlock, srcPrev, srcNext, ...) of
   write_time_shifted_data: the window it was handed. *)
ShiftCall(blockId, srcBlock, srcPrev, srcNext, current, target, meta) ==
  [op |-> "shift", num |-> blockId, srcBlock |-> srcBlock, srcPrev |-> srcPrev,
   srcNext |-> srcNext, nextRead |-> reads_srcNext(blockId, current, target, meta)]

(* write_time_shifted_data: prime the window with block 1. *)
RepointFirst ==
  /\ UNCHANGED notWriterVars
  /\ pc = "repoint_first"
  /\ LET firstBlockResult == read_block(1, infile, desc.meta)
     IN IF firstBlockResult.status # "ok"
        THEN /\ pc' = "returned"
             /\ result' = "err"
             /\ UNCHANGED nextBlock
        ELSE /\ nextBlock' = firstBlockResult.value
             /\ pc' = "repoint"
             /\ UNCHANGED result
  /\ rlog' = Append(rlog, ReadCall(1))
  /\ UNCHANGED <<desc, infile, blockNum, lastBlock, currentBlock, outfile,
                 inflight, pass, orig, kept, handle>>

(* write_time_shifted_data: one iteration of the block loop. *)
RepointBlock ==
  /\ UNCHANGED notWriterVars
  /\ pc = "repoint"
  /\ blockNum <= desc.meta.blocks_per_sub
  /\ lastBlock' = currentBlock
  /\ currentBlock' = nextBlock
  /\ LET more            == blockNum < desc.meta.blocks_per_sub
         nextBlockResult == read_block(blockNum + 1, infile, desc.meta)
         nxt             == IF more THEN nextBlockResult.value ELSE nextBlock
         shifted         == time_shift(blockNum, nextBlock, currentBlock, nxt,
                                       desc.from, desc.to, desc.margin, desc.meta)
         reads           == IF more THEN <<ReadCall(blockNum + 1)>> ELSE <<>>
     IN IF more /\ nextBlockResult.status # "ok"
        THEN /\ pc' = "returned"
             /\ result' = "err"
             /\ rlog' = rlog \o reads
             /\ UNCHANGED <<nextBlock, outfile, blockNum>>
        ELSE /\ nextBlock' = nxt
             /\ rlog' = rlog \o reads
                          \o <<ShiftCall(blockNum, nextBlock, currentBlock, nxt,
                                         desc.from, desc.to, desc.meta)>>
             /\ IF shifted.threw
                THEN /\ pc' = "returned"
                     /\ result' = "threw"
                     /\ UNCHANGED <<outfile, blockNum>>
                ELSE /\ outfile' = Append(outfile, BlockChunk(blockNum, shifted.blk))
                     /\ blockNum' = blockNum + 1
                     /\ UNCHANGED <<pc, result>>
  /\ UNCHANGED <<desc, infile, inflight, pass, orig, kept, handle>>

(* A block loop runs out: fall through to the close. *)
LoopExit ==
  /\ UNCHANGED notWriterVars
  /\ pc \in {"passthrough", "remap", "repoint"}
  /\ blockNum > desc.meta.blocks_per_sub
  /\ pc' = "close"
  /\ UNCHANGED <<desc, infile, blockNum, lastBlock, currentBlock, nextBlock,
                 outfile, inflight, result, pass, orig, kept, handle, rlog>>

(* file.close() without await, and the successful return. *)
WriteSubfileReturn ==
  /\ UNCHANGED notWriterVars
  /\ pc = "close"
  /\ pc' = "returned"
  /\ result' = "ok"
  /\ handle' = "closing"
  /\ UNCHANGED <<desc, infile, blockNum, lastBlock, currentBlock, nextBlock,
                 outfile, inflight, pass, orig, kept, rlog>>

(* The close that was issued and not awaited takes effect: FileHandle.close
   waits for the operations pending on the handle. *)
CloseCompletes ==
  /\ UNCHANGED notWriterVars
  /\ handle = "closing"
  /\ inflight = <<>>
  /\ handle' = "closed"
  /\ UNCHANGED <<desc, infile, pc, blockNum, lastBlock, currentBlock, nextBlock,
                 outfile, inflight, result, pass, orig, kept, rlog>>

(* The written data blocks in block order, when the output file is the
   preamble followed by blocks 1..blocks_per_sub. *)
OutputBlocks == [b \in 1..(Len(outfile) - 1) |-> outfile[b + 1].buf]

WellFormedOutput ==
  /\ inflight = <<>>
  /\ Len(outfile) = desc.meta.blocks_per_sub + 1
  /\ outfile[1].kind = "preamble"
  /\ \A b \in 1..desc.meta.blocks_per_sub :
       outfile[b + 1].kind = "block" /\ outfile[b + 1].num = b

(* runRepoint run again on the output of a finished repoint of zero-delay
   data, back to the zero table: the delay table of the new input is the
   table just applied; the margin is either the one carried through or one
   that was replaced on the way. *)
RepointBack ==
  /\ UNCHANGED notWriterVars
  /\ pc = "returned"
  /\ result = "ok"
  /\ pass = 1
  /\ desc.mode = "repoint"
  /\ desc.from = ZeroTable
  /\ WellFormedOutput
  /\ \E keep \in BOOLEAN :
       /\ kept' = keep
       /\ desc' = [desc EXCEPT !.from = desc.to, !.to = ZeroTable,
                               !.margin = IF keep THEN desc.margin
                                          ELSE Zeros(Len(desc.margin))]
  /\ infile' = [infile EXCEPT !.blocks = OutputBlocks]
  /\ pass' = 2
  /\ pc' = "start"
  /\ result' = "none"
  /\ blockNum' = 0
  /\ lastBlock' = NULL
  /\ currentBlock' = NULL
  /\ nextBlock' = NULL
  /\ outfile' = <<>>
  /\ handle' = "none"
  /\ rlog' = <<>>
  /\ UNCHANGED <<inflight, orig>>

WriterNext ==
  \/ RunReplace
  \/ WriteSubfileStart
  \/ WriteCompletes
  \/ PassthroughBlock
  \/ RemapBlock
  \/ RepointFirst
  \/ RepointBlock
  \/ LoopExit
  \/ WriteSubfileReturn
  \/ CloseCompletes
  \/ RepointBack

Init == WriterInit

Next == WriterNext

Spec == Init /\ [][Next]_vars

----------------------------------------------------------------------------
(* Properties of the repoint engine *)

(* The data blocks that have reached the output file. *)
WrittenBlocks == {j \in 1..Len(outfile) : outfile[j].kind = "block"}

(* Line of source index s in a block of 16-bit samples. *)
LineOf(blk, s) ==
  SubSeq(blk, s * desc.meta.samples_per_line + 1, (s + 1) * desc.meta.samples_per_line)

ShiftOf(s) == desc.to[s + 1] - desc.from[s + 1]

HeadMarginOf(s) ==
  SubSeq(desc.margin, s * 2 * desc.meta.margin_samples + 1,
         s * 2 * desc.meta.margin_samples + desc.meta.margin_samples)

TailMarginOf(s) ==
  SubSeq(desc.margin, s * 2 * desc.meta.margin_samples + desc.meta.margin_samples + 1,
         (s + 1) * 2 * desc.meta.margin_samples)

(* C1: for every source with a negative relative shift N and every written
   block b, the last |N| samples of the output line are the first |N|
   samples of the source's line in input block b+1 when b < blocks_per_sub,
   and the tail-margin range [ms/2 - M + 1, ms/2 - N - M + 1) only when
   b = blocks_per_sub. *)
C1_TailFromNextBlock ==
  desc.mode = "repoint" =>
    \A j \in WrittenBlocks : \A s \in 0..(desc.meta.num_sources - 1) :
      LET b    == outfile[j].num
          spl  == desc.meta.samples_per_line
          N    == ShiftOf(s)
          M    == desc.from[s + 1]
          half == desc.meta.margin_samples \div 2
          out  == LineOf(outfile[j].buf, s)
      IN (N < 0 /\ -N <= spl) =>
           SubSeq(out, spl + N + 1, spl) =
             IF b < desc.meta.blocks_per_sub
             THEN SubSeq(LineOf(infile.blocks[b + 1], s), 1, -N)
             ELSE SubSeq(TailMarginOf(s), half - M + 2, half - N - M + 1)

(* The sample of source s at stream position p: data inside the subfile, the
   head margin before it, the tail margin after it. *)
StreamAt(s, p) ==
  LET spl   == desc.meta.samples_per_line
      total == desc.meta.blocks_per_sub * spl
      half  == desc.meta.margin_samples \div 2
      M     == desc.from[s + 1]
  IN IF p < 0 THEN HeadMarginOf(s)[half - M + p]
     ELSE IF p >= total THEN TailMarginOf(s)[half - M + 2 + (p - total)]
     ELSE LineOf(infile.blocks[(p \div spl) + 1], s)[(p % spl) + 1]

(* Stream position p of source s is supplied by data or by an existing
   margin sample. *)
StreamDefined(s, p) ==
  LET total == desc.meta.blocks_per_sub * desc.meta.samples_per_line
      half  == desc.meta.margin_samples \div 2
      M     == desc.from[s + 1]
  IN IF p < 0 THEN half - M + p \in 1..desc.meta.margin_samples
     ELSE IF p >= total
       THEN half - M + 2 + (p - total) \in 1..desc.meta.margin_samples
     ELSE TRUE

IsS1 ==
  /\ desc.mode = "repoint"
  /\ pass = 1
  /\ desc.meta.blocks_per_sub = 3
  /\ desc.from = <<-1, 1>>
  /\ desc.to = <<2, -2>>
  /\ desc.margin = LiteralMargin

S1Expected ==
  <<BlockChunk(1, <<1, 2, 3, 4, 107, 108, 109, 110>>),
    BlockChunk(2, <<5, 6, 7, 8, 111, 112, 113, 114>>),
    BlockChunk(3, <<9, 10, 11, 12, 115, 116, 117, 118>>)>>

(* C2: repoint output is a continuous shift of every source's stream: output
   sample i of block b is the stream sample at (b-1)*samples_per_line + i - N,
   the margin supplying the positions outside the data; and the S1 input
   gives the S1 output. *)
C2_ContinuousShift ==
  desc.mode = "repoint" =>
    /\ \A j \in WrittenBlocks : \A s \in 0..(desc.meta.num_sources - 1) :
         \A i \in 0..(desc.meta.samples_per_line - 1) :
           LET p == (outfile[j].num - 1) * desc.meta.samples_per_line + i - ShiftOf(s)
           IN StreamDefined(s, p) =>
                LineOf(outfile[j].buf, s)[i + 1] = StreamAt(s, p)
    /\ (IsS1 /\ result = "ok" /\ infile.failAt = 0) =>
         [j \in 1..3 |-> outfile[CHOOSE k \in WrittenBlocks : outfile[k].num = j]]
           = S1Expected

(* C7: when to equals from for every source, every data block written by
   repoint equals the corresponding input block. *)
C7_RepointIdentity ==
  (desc.mode = "repoint" /\ desc.to = desc.from) =>
    \A j \in WrittenBlocks : outfile[j].buf = infile.blocks[outfile[j].num]

(* A complete identity repoint of non-zero delays over several blocks. *)
C7_Witness ==
  /\ desc.mode = "repoint"
  /\ desc.to = desc.from
  /\ desc.from = <<-1, 2>>
  /\ desc.margin = LiteralMargin
  /\ desc.meta.blocks_per_sub = 3
  /\ result = "ok"
  /\ Cardinality(WrittenBlocks) = 3

(* C8: from zero delays, repointing to a table d that shifts some source and
   then back to the zero table restores the original data blocks exactly
   when the margin was carried through unchanged and no shift exceeded
   margin_samples / 2. *)
C8_RepointCancellation ==
  (/\ pass = 2
   /\ pc = "returned"
   /\ result = "ok"
   /\ WellFormedOutput
   /\ desc.from # ZeroTable
   /\ kept => desc.margin = StreamMargin(desc.meta, ZeroTable))
  => ((OutputBlocks = orig) <=>
        (kept /\ \A s \in 1..desc.meta.num_sources :
                   Abs(desc.from[s]) <= desc.meta.margin_samples \div 2))

----------------------------------------------------------------------------
(* Properties of the subfile writer *)

(* C3: the preamble write has completed before the write of any data block
   begins, and the data blocks are written in ascending order 1, 2, ...,
   blocks_per_sub, none skipped, none twice. *)
C3_PreambleThenAscendingBlocks ==
  /\ WrittenBlocks # {} => (inflight = <<>> /\ outfile[1].kind = "preamble")
  /\ \A j \in WrittenBlocks :
       outfile[j].num = Cardinality({k \in WrittenBlocks : k <= j})
  /\ (result = "ok" /\ desc.sections.data) =>
       Cardinality(WrittenBlocks) = desc.meta.blocks_per_sub

(* Invariant P1: delay table, packet map and margin fit inside block 0. *)
PreamblePacked ==
  desc.meta.dt_length + desc.meta.udpmap_length + desc.meta.margin_length
    <= desc.meta.block_length

(* The input subfile, chunk by chunk. *)
InputChunks ==
  <<[kind |-> "preamble", num |-> 0, hdr |-> infile.header, buf |-> infile.block0]>>
  \o [b \in 1..desc.meta.blocks_per_sub |-> BlockChunk(b, infile.blocks[b])]

(* C6: passthrough of a valid subfile yields a file of the same length with
   the same byte at every offset, the bytes of block 0 outside the three
   sections included. *)
C6_PassthroughRoundTrip ==
  (/\ desc.mode = "passthrough"
   /\ desc.sections.data
   /\ PreamblePacked
   /\ pc = "returned"
   /\ result = "ok"
   /\ inflight = <<>>)
  => outfile = InputChunks

----------------------------------------------------------------------------
(* Properties of the replace command *)

(* The source whose data the options ask for in place of source id:
   --map-all=A names A for every source, --map=A:B names B for A (the last
   entry for A counts), and a source no option names keeps its own data. *)
RequestedSource(opts, id) ==
  IF ~opts.replace_map_all.isNull THEN opts.replace_map_all.val
  ELSE IF opts.replace_map.isNull THEN id
  ELSE LET l    == opts.replace_map.val
           hits == {i \in 1..Len(l) : l[i][1] = id}
       IN IF hits = {} THEN id
          ELSE l[CHOOSE i \in hits : \A j \in hits : j <= i][2]

IsSource(id) == \E i \in 1..Len(desc.sources) : desc.sources[i] = id

IndexOf(id) == (CHOOSE i \in 1..Len(desc.sources) : desc.sources[i] = id) - 1

(* C11: in remap mode every line i of every written block b equals line
   index_of(m(sources[i])) of input block b, where m is the mapping the
   options ask for; with --map-all=A every line equals the line of A. *)
C11_RemapLines ==
  desc.mode = "remap" =>
    \A j \in WrittenBlocks : \A i \in 0..(Len(desc.sources) - 1) :
       LET target == RequestedSource(desc.opts, desc.sources[i + 1])
       IN IsSource(target) =>
            LineOf(outfile[j].buf, i)
              = LineOf(infile.blocks[outfile[j].num], IndexOf(target))

(* replace --map-all=20 has written every block of a subfile of two or more
   blocks, and line 0 of the last block holds the data of source 20. *)
C11_Witness ==
  /\ desc.mode = "remap"
  /\ ~desc.opts.replace_map_all.isNull
  /\ desc.opts.replace_map_all.val = 20
  /\ pc = "returned"
  /\ result = "ok"
  /\ desc.meta.blocks_per_sub >= 2
  /\ Cardinality(WrittenBlocks) = desc.meta.blocks_per_sub
  /\ \E j \in WrittenBlocks :
       /\ outfile[j].num = desc.meta.blocks_per_sub
       /\ LineOf(outfile[j].buf, 0) = LineOf(infile.blocks[outfile[j].num], 1)
       /\ LineOf(outfile[j].buf, 0) # LineOf(infile.blocks[outfile[j].num], 0)

(* C12: replace with neither --map nor --map-all completes successfully,
   and what it has written is what passthrough writes for the same
   subfile: the same preamble and every data block unchanged. *)
C12_ReplaceDefaultIsPassthrough ==
  (/\ desc.mode = "remap"
   /\ desc.opts = NoOptions
   /\ infile.failAt = 0
   /\ pc = "returned"
   /\ inflight = <<>>)
  => /\ result = "ok"
     /\ Cardinality(WrittenBlocks) = desc.meta.blocks_per_sub
     /\ \A j \in 1..Len(outfile) :
          IF outfile[j].kind = "block"
          THEN outfile[j].buf = infile.blocks[outfile[j].num]
          ELSE outfile[j] = make_preamble(desc.meta, desc.sections)

----------------------------------------------------------------------------
(* The block cache as a state machine: a client issues cache_add and
   cache_get calls. *)

CacheCapacity == 30

CacheKeys == {"a", "b", "c", "d"}

(* The buffers a client adds: key and byteLength.  The 40-byte buffer is
   larger than the whole cache. *)
CacheAdds ==
  {<<"a", 10>>, <<"b", 10>>, <<"c", 10>>, <<"d", 10>>, <<"a", 20>>, <<"b", 40>>}

(* A fresh buffer of len bytes; its content is that of the n-th operation. *)
NewBuffer(len, n) == [byteLength |-> len, content |-> <<n>>]

CacheInit ==
  /\ cache = cache_create(CacheCapacity)
  /\ hist = <<>>
  /\ prev = cache_create(CacheCapacity)
  /\ WriterIdle
  /\ UpgradeIdle
  /\ ResampleIdle
  /\ CodecIdle

(* The entries of before that are no longer in after, oldest deletion first
   (a flush deletes from the end of the array towards the head). *)
Evicted(before, after) ==
  LET gone == {i \in 1..Len(before) :
                 \A j \in 1..Len(after) : after[j] # before[i]}
      RECURSIVE list(_)
      list(S) == IF S = {} THEN <<>>
                 ELSE LET i == CHOOSE x \in S : \A y \in S : y <= x
                      IN <<before[i]>> \o list(S \ {i})
  IN list(gone)

CacheAdd ==
  /\ UNCHANGED notCacheVars
  /\ Len(hist) < MaxOps
  /\ \E a \in CacheAdds :
       LET buf == NewBuffer(a[2], Len(hist) + 1)
           r   == cache_add(a[1], buf, cache)
       IN /\ cache' = r.cache
          /\ prev' = cache
          /\ hist' = Append(hist, [op |-> "add", key |-> a[1], buf |-> buf,
                                   accepted |-> r.ret, isNull |-> FALSE,
                                   evicted |-> IF r.ret
                                               THEN Evicted(cache.entries,
                                                            Tail(r.cache.entries))
                                               ELSE <<>>])

CacheGet ==
  /\ UNCHANGED notCacheVars
  /\ Len(hist) < MaxOps
  /\ \E k \in CacheKeys :
       LET r == cache_get(k, cache)
       IN /\ cache' = r.cache
          /\ prev' = cache
          /\ hist' = Append(hist, [op |-> "get", key |-> k, buf |-> r.buf,
                                   accepted |-> FALSE, isNull |-> r.isNull,
                                   evicted |-> <<>>])

CacheNext ==
  \/ CacheAdd
  \/ CacheGet

SpecCache == CacheInit /\ [][CacheNext]_vars

----------------------------------------------------------------------------
(* Properties of the cache *)

(* Operation i put buffer b into the cache or handed it out. *)
Uses(i, b) ==
  \/ hist[i].op = "add" /\ hist[i].accepted /\ hist[i].buf = b
  \/ hist[i].op = "get" /\ ~hist[i].isNull /\ hist[i].buf = b

(* The last operation before operation n that used buffer b. *)
LastUse(b, n) ==
  LET used == {i \in 1..(n - 1) : Uses(i, b)}
  IN IF used = {} THEN 0 ELSE CHOOSE i \in used : \A j \in used : j <= i

RECURSIVE SumBytes(_)
SumBytes(entries) ==
  IF entries = <<>> THEN 0
  ELSE Head(entries).buf.byteLength + SumBytes(Tail(entries))

IsScenarioS6 ==
  /\ Len(hist) = 5
  /\ cache.capacity = 30
  /\ \A i \in 1..5 : hist[i].op = (IF i = 4 THEN "get" ELSE "add")
  /\ <<hist[1].key, hist[2].key, hist[3].key, hist[4].key, hist[5].key>>
       = <<"a", "b", "c", "a", "d">>
  /\ \A i \in {1, 2, 3, 5} : hist[i].buf.byteLength = 10

(* C4: an accepted cache_add evicts in least-recently-used order, where use
   is insertion or return by a cache_get hit, and stops as soon as the new
   buffer fits: every evicted entry was last used before every entry that
   stays, the evictions go from the least recently used upwards, before each
   eviction the buffer did not fit, and nothing is evicted when it fits.
   With capacity 30 and 10-byte buffers, add a, b, c, get a, add d evicts b
   and only b. *)
C4_LruEviction ==
  (hist # <<>> /\ hist[Len(hist)].op = "add" /\ hist[Len(hist)].accepted) =>
    LET n    == Len(hist)
        h    == hist[n]
        ev   == h.evicted
        kept_entries == {i \in 1..Len(prev.entries) :
                           \A j \in 1..Len(ev) : ev[j] # prev.entries[i]}
    IN /\ \A j \in 1..Len(ev) : \A i \in kept_entries :
            LastUse(ev[j].buf, n) < LastUse(prev.entries[i].buf, n)
       /\ \A j, k \in 1..Len(ev) :
            j < k => LastUse(ev[j].buf, n) < LastUse(ev[k].buf, n)
       /\ \A j \in 1..Len(ev) :
            prev.capacity - (prev.used - SumBytes(SubSeq(ev, 1, j - 1)))
              < h.buf.byteLength
       /\ cache.used <= cache.capacity
       /\ cache.entries[1] = [key |-> h.key, buf |-> h.buf]
       /\ Len(cache.entries) = Len(prev.entries) - Len(ev) + 1
       /\ IsScenarioS6 => (Len(ev) = 1 /\ ev[1].key = "b")

(* The S6 sequence has run and its last add evicted b. *)
C4_Witness ==
  /\ IsScenarioS6
  /\ hist[5].accepted
  /\ Len(hist[5].evicted) = 1
  /\ hist[5].evicted[1].key = "b"
  /\ Len(cache.entries) = 3

(* The accepted adds of key k among the first n operations. *)
AcceptedAdds(k, n) ==
  {i \in 1..n : hist[i].op = "add" /\ hist[i].key = k /\ hist[i].accepted}

(* Buffer b was evicted by one of the operations i+1 .. n. *)
EvictedBetween(b, i, n) ==
  \E j \in (i + 1)..n : \E e \in 1..Len(hist[j].evicted) :
     hist[j].evicted[e].buf = b

(* C5: cache_get(k) returns the buffer of the most recent accepted
   cache_add(k, .) when that entry has not been evicted, and null when k was
   never added or that entry has been evicted. *)
C5_LastWriteWins ==
  (hist # <<>> /\ hist[Len(hist)].op = "get") =>
    LET n     == Len(hist)
        h     == hist[n]
        adds  == AcceptedAdds(h.key, n - 1)
        last  == CHOOSE i \in adds : \A j \in adds : j <= i
    IN IF adds # {} /\ ~EvictedBetween(hist[last].buf, last, n - 1)
       THEN ~h.isNull /\ h.buf = hist[last].buf
       ELSE h.isNull

(* A key was added twice, both entries are still cached, and the get
   returned the buffer of the second add. *)
C5_Witness ==
  /\ hist # <<>>
  /\ hist[Len(hist)].op = "get"
  /\ ~hist[Len(hist)].isNull
  /\ Cardinality(AcceptedAdds(hist[Len(hist)].key, Len(hist) - 1)) = 2
  /\ Cardinality({i \in 1..Len(cache.entries) :
                    cache.entries[i].key = hist[Len(hist)].key}) = 2
  /\ C5_LastWriteWins

----------------------------------------------------------------------------
(* Header codec.  A header line "KEY value" is a record of its key and the
   number its value text spells; a parsed field also carries whether the
   value is held as a number or as a string. *)

HeaderFieldNames ==
  <<"HDR_SIZE", "POPULATED", "OBS_ID", "SUBOBS_ID", "MODE", "UTC_START",
    "OBS_OFFSET", "NBIT", "NPOL", "NTIMESAMPLES", "NINPUTS", "NINPUTS_XGPU",
    "APPLY_PATH_WEIGHTS", "APPLY_PATH_DELAYS", "INT_TIME_MSEC",
    "FSCRUNCH_FACTOR", "APPLY_VIS_WEIGHTS", "TRANSFER_SIZE", "PROJ_ID",
    "EXPOSURE_SECS", "COARSE_CHANNEL", "CORR_COARSE_CHANNEL",
    "SECS_PER_SUBOBS", "UNIXTIME", "UNIXTIME_MSEC", "FINE_CHAN_WIDTH_HZ",
    "NFINE_CHAN", "BANDWIDTH_HZ", "SAMPLE_RATE", "MC_IP", "MC_PORT",
    "MC_SRC_IP", "MWAX_U2S_VER">>

HeaderStringFields ==
  {"MODE", "UTC_START", "PROJ_ID", "MC_IP", "MC_SRC_IP", "MWAX_U2S_VER"}

InHeaderFields(k) == \E i \in 1..Len(HeaderFieldNames) : HeaderFieldNames[i] = k

(* HEADER_FIELDS[k].index, or 9999 for a key that is not in the table. *)
HeaderFieldIndex(k) ==
  IF InHeaderFields(k)
  THEN (CHOOSE i \in 1..Len(HeaderFieldNames) : HeaderFieldNames[i] = k) - 1
  ELSE 9999

HeaderFieldType(k) ==
  IF ~InHeaderFields(k) THEN "undefined"
  ELSE IF k \in HeaderStringFields THEN "string" ELSE "number"

HasKey(header, k) == \E i \in 1..Len(header) : header[i].k = k

KeyIndex(header, k) == CHOOSE i \in 1..Len(header) : header[i].k = k

(* header[k] = field: an own key keeps its place, a new key goes last. *)
SetKey(header, field) ==
  IF HasKey(header, field.k)
  THEN [header EXCEPT ![KeyIndex(header, field.k)] = field]
  ELSE Append(header, field)

(* header.KEY ?? dflt *)
HeaderValue(header, k, dflt) ==
  IF HasKey(header, k) THEN header[KeyIndex(header, k)].v ELSE dflt

RECURSIVE parse_header_from(_, _)
parse_header_from(lines, header) ==
  IF lines = <<>> THEN header
  ELSE LET l == Head(lines)
           t == IF HeaderFieldType(l.k) = "number" THEN "number" ELSE "string"
       IN parse_header_from(Tail(lines), SetKey(header, [k |-> l.k, v |-> l.v, t |-> t]))

(* Parse a header: the fields in the order of Object.fromEntries. *)
parse_header(lines) == parse_header_from(lines, <<>>)

(* set_header_value with a numeric value: the header afterwards and the
   status returned. *)
set_header_value(key, value, header, force) ==
  IF InHeaderFields(key) \/ force
  THEN [status |-> "ok",
        header |-> SetKey(header,
                          [k |-> key, v |-> value,
                           t |-> IF HeaderFieldType(key) = "string"
                                 THEN "string" ELSE "number"])]
  ELSE [status |-> "invalid", header |-> header]

RECURSIVE SortByIndex(_)
SortByIndex(fields) ==
  IF fields = <<>> THEN <<>>
  ELSE LET lowest == CHOOSE i \in 1..Len(fields) :
                       /\ \A j \in 1..Len(fields) :
                            HeaderFieldIndex(fields[i].k) <= HeaderFieldIndex(fields[j].k)
                       /\ \A j \in 1..(i - 1) :
                            HeaderFieldIndex(fields[j].k) > HeaderFieldIndex(fields[i].k)
       IN <<fields[lowest]>> \o SortByIndex(splice(fields, lowest))

(* A text is the sequence of its characters.  The characters of the
   decimal digits, in the order of their values. *)
DigitChars == <<"0", "1", "2", "3", "4", "5", "6", "7", "8", "9">>

IsDigit(ch) == \E i \in 1..10 : DigitChars[i] = ch

DigitValue(ch) == (CHOOSE i \in 1..10 : DigitChars[i] = ch) - 1

(* x.split(' ') destructured as [k, v]: v is the text between the first
   space of the line and the next one, whatever follows is dropped. *)
second_token(rest) ==
  IF \E i \in 1..Len(rest) : rest[i] = " "
  THEN SubSeq(rest, 1, (CHOOSE i \in 1..Len(rest) :
                          rest[i] = " " /\ \A j \in 1..(i - 1) : rest[j] # " ") - 1)
  ELSE rest

(* Number.parseInt reads an optional sign and the decimal digits that
   follow, and stops at the first other character; without a digit the
   result is NaN. *)
ParsesAsInt(text) ==
  \/ Len(text) >= 1 /\ IsDigit(text[1])
  \/ Len(text) >= 2 /\ text[1] \in {"-", "+"} /\ IsDigit(text[2])

parseInt(text) ==
  LET signed == text[1] \in {"-", "+"}
      digits == IF signed THEN Tail(text) ELSE text
      RECURSIVE value(_, _)
      value(i, acc) == IF i > Len(digits) \/ ~IsDigit(digits[i]) THEN acc
                       ELSE value(i + 1, 10 * acc + DigitValue(digits[i]))
  IN IF text[1] = "-" THEN 0 - value(1, 0) ELSE value(1, 0)

(* The decimal text of a number. *)
RECURSIVE NumberText(_)
NumberText(n) ==
  IF n < 0 THEN <<"-">> \o NumberText(0 - n)
  ELSE IF n < 10 THEN <<DigitChars[n + 1]>>
  ELSE NumberText(n \div 10) \o <<DigitChars[(n % 10) + 1]>>

(* parse_header on the characters of the lines: the value of a registered
   number field is what parseInt reads (NaN is held as the text that the
   serialiser prints for it), any other value is the text itself. *)
RECURSIVE parse_header_text_from(_, _)
parse_header_text_from(lines, header) ==
  IF lines = <<>> THEN header
  ELSE LET l == Head(lines)
           v == second_token(l.v)
           field == IF HeaderFieldType(l.k) = "number" /\ ParsesAsInt(v)
                      THEN [k |-> l.k, v |-> parseInt(v), t |-> "number"]
                    ELSE IF HeaderFieldType(l.k) = "number"
                      THEN [k |-> l.k, v |-> <<"N", "a", "N">>, t |-> "text"]
                    ELSE [k |-> l.k, v |-> v, t |-> "text"]
       IN parse_header_text_from(Tail(lines), SetKey(header, field))

parse_header_text(lines) == parse_header_text_from(lines, <<>>)

(* `${v}`: a field whose value is held as text prints that text, a value
   held as the number it spells prints the decimal text of the number. *)
template_literal(field) ==
  IF field.t = "text" THEN field.v ELSE NumberText(field.v)

(* The "KEY value" lines that serialise_header emits, in the (stable) order
   of the field index. *)
header_text_lines(header) ==
  LET sorted == SortByIndex(header)
  IN [i \in 1..Len(sorted) |-> [k |-> sorted[i].k, v |-> template_literal(sorted[i])]]

(* serialise_header: the lines in the (stable) order of the field index,
   each "KEY value" and a newline; padEnd fills the text up to header_length
   with NUL and leaves a longer text as it is. *)
serialise_header(header) ==
  LET sorted == SortByIndex(header)
      RECURSIVE text(_)
      text(i) == IF i > Len(sorted) THEN 0
                 ELSE Len(sorted[i].k) + 1 + Len(template_literal(sorted[i])) + 1 + text(i + 1)
  IN [byteLength |-> Max(text(1), header_length),
      content    |-> [i \in 1..Len(sorted) |-> [k |-> sorted[i].k, v |-> sorted[i].v]]]

----------------------------------------------------------------------------
(* Delay-table codec, binary.  A fractional delay is held in thousandths. *)

Uint16LE(n) == <<(n % 65536) % 256, (n % 65536) \div 256>>

Int16LE(n) == Uint16LE(n)

Int32LE(n) == Uint16LE(n % 65536) \o Uint16LE((n \div 65536) % 65536)

(* IEEE-754 binary64 of the delay values explored. *)
Float64LE(x) == CASE x = 0 -> Zeros(8)

(* IEEE-754 binary32 of the fractional delays explored (in thousandths). *)
Float32LE(x) ==
  CASE x = 0     -> <<0, 0, 0, 0>>
    [] x = 1     -> <<111, 18, 131, 58>>
    [] x = 500   -> <<0, 0, 0, 63>>
    [] x = 700   -> <<51, 51, 51, 63>>
    [] x = -700  -> <<51, 51, 51, 191>>
    [] x = 1000  -> <<0, 0, 128, 63>>
    [] x = -1500 -> <<0, 0, 192, 191>>
    [] x = 2000  -> <<0, 0, 0, 64>>

(* ToInt16(f * 1000) of setInt16, for the float32 f nearest to x / 1000:
   the double product is truncated towards zero.  The float32 nearest to
   0.7 is 0.699999988..., the one nearest to 0.001 is 0.00100000004...;
   0.5, 1, 1.5 and 2 are exact. *)
ScaledToInt16(x) ==
  CASE x = 0     -> 0
    [] x = 1     -> 1
    [] x = 500   -> 500
    [] x = 700   -> 699
    [] x = -700  -> -699
    [] x = 1000  -> 1000
    [] x = -1500 -> -1500
    [] x = 2000  -> 2000

getUint16(row, at) == row[at + 1] + 256 * row[at + 2]

getInt16(row, at) ==
  IF getUint16(row, at) >= 32768 THEN getUint16(row, at) - 65536
                                 ELSE getUint16(row, at)

getInt32(row, at) == getUint16(row, at) + 65536 * getInt16(row, at + 2)

getFloat64(row, at) == CASE SubSeq(row, at + 1, at + 8) = Zeros(8) -> 0

(* The float32 in thousandths; a bit pattern that spells none of the delays
   explored stands for itself. *)
getFloat32(row, at) ==
  LET b == SubSeq(row, at + 1, at + 4)
  IN CASE b = <<0, 0, 0, 0>>       -> 0
       [] b = <<111, 18, 131, 58>> -> 1
       [] b = <<0, 0, 0, 63>>      -> 500
       [] b = <<51, 51, 51, 63>>   -> 700
       [] b = <<51, 51, 51, 191>>  -> -700
       [] b = <<0, 0, 128, 63>>    -> 1000
       [] b = <<0, 0, 192, 191>>   -> -1500
       [] b = <<0, 0, 0, 64>>      -> 2000
       [] OTHER                    -> [bits |-> b]

(* A DataView read of size bytes at offset at throws a RangeError when it
   does not lie inside the buffer. *)
OutOfBounds(buf, at, size) == at < 0 \/ at + size > Len(buf)

(* The bits of the float32 at offset at without its sign: the order of
   these numbers is the order of the magnitudes, NaN and infinity last. *)
Float32Magnitude(buf, at) ==
  buf[at + 1] + 256 * buf[at + 2] + 65536 * buf[at + 3] + 16777216 * (buf[at + 4] % 128)

(* frac >= -2 && frac <= 2 for the float32 at offset at: 2.0 is 0x40000000. *)
Float32InRange(buf, at) == Float32Magnitude(buf, at) <= 1073741824

RECURSIVE Flatten(_)
Flatten(seqs) == IF seqs = <<>> THEN <<>> ELSE Head(seqs) \o Flatten(Tail(seqs))

serialise_delay_table_entry_binary_v1(entry) ==
  LET fixed == Uint16LE(entry.rf_input) \o Int16LE(entry.ws_delay)
               \o Int32LE(entry.initial_delay) \o Int32LE(entry.delta_delay)
               \o Int32LE(entry.delta_delta_delay) \o Uint16LE(entry.num_pointings)
      fracs == Flatten([i \in 1..Len(entry.frac_delay) |->
                          Int16LE(ScaledToInt16(entry.frac_delay[i]))])
  IN fixed \o fracs \o Zeros(2)

serialise_delay_table_entry_binary_v2(entry) ==
  Uint16LE(entry.rf_input) \o Int16LE(entry.ws_delay)
  \o Float64LE(entry.initial_delay) \o Float64LE(entry.delta_delay)
  \o Float64LE(entry.delta_delta_delay) \o Float64LE(entry.start_total_delay)
  \o Float64LE(entry.middle_total_delay) \o Float64LE(entry.end_total_delay)
  \o Uint16LE(entry.num_pointings) \o Uint16LE(entry.reserved)
  \o Flatten([i \in 1..Len(entry.frac_delay) |-> Float32LE(entry.frac_delay[i])])

(* serialise_delay_table with the table's own format_version. *)
serialise_delay_table(table) ==
  LET rows == [i \in 1..Len(table.entries) |->
                 IF table.format_version = 1
                 THEN serialise_delay_table_entry_binary_v1(table.entries[i])
                 ELSE serialise_delay_table_entry_binary_v2(table.entries[i])]
  IN [byteLength |-> Len(Flatten(rows)), content |-> Flatten(rows)]

parse_delay_table_entry_binary_v1(row) ==
  [rf_input           |-> getUint16(row, 0),
   ws_delay           |-> getInt16(row, 2),
   initial_delay      |-> getInt32(row, 4),
   delta_delay        |-> getInt32(row, 8),
   delta_delta_delay  |-> getInt32(row, 12),
   start_total_delay  |-> 0,
   middle_total_delay |-> 0,
   end_total_delay    |-> 0,
   num_pointings      |-> getInt16(row, 16),
   reserved           |-> 0,
   frac_delay         |-> [i \in 1..((Len(row) - 20) \div 2) |->
                             getInt16(row, 18 + 2 * (i - 1))]]

parse_delay_table_entry_binary_v2(row) ==
  [rf_input           |-> getUint16(row, 0),
   ws_delay           |-> getInt16(row, 2),
   initial_delay      |-> getFloat64(row, 4),
   delta_delay        |-> getFloat64(row, 12),
   delta_delta_delay  |-> getFloat64(row, 20),
   start_total_delay  |-> getFloat64(row, 28),
   middle_total_delay |-> getFloat64(row, 36),
   end_total_delay    |-> getFloat64(row, 44),
   num_pointings      |-> getUint16(row, 52),
   reserved           |-> getUint16(row, 54),
   frac_delay         |-> [i \in 1..((Len(row) - 56) \div 4) |->
                             getFloat32(row, 56 + 4 * (i - 1))]]

(* Test if the buffer appears to contain a valid version 1 binary table. *)
is_plausible_binary_v1(buf) ==
  IF OutOfBounds(buf, 4, 4) \/ OutOfBounds(buf, 16, 2) \/ OutOfBounds(buf, 18, 2)
  THEN [threw |-> TRUE, value |-> FALSE]
  ELSE LET initialDelay == getInt32(buf, 4)
           numPointings == getUint16(buf, 16)
           firstFrac    == getInt16(buf, 18)
       IN [threw |-> FALSE,
           value |-> /\ numPointings = 1
                     /\ initialDelay = firstFrac
                     /\ Abs(firstFrac) <= 2000
                     /\ ((initialDelay = 0) = (firstFrac = 0))]

(* Test if the buffer appears to contain a valid version 2 binary table.
   The comparisons abs(a - b) < 0.0001 are decided on the sizes of the
   numbers, read off their bits: a float64 is "tiny" below 0.00005 (upper
   half of the bits below 0x3F0A36E2) and "large" above 0.00015 (upper half
   above 0x3F23A92A), a float32 is "tiny" below 0x3851B717 and "large" above
   0x391D4952, NaN and infinity being large; two tiny numbers are closer
   than 0.0001, a tiny and a large one are not. *)
is_plausible_binary_v2(buf) ==
  IF OutOfBounds(buf, 4, 8) \/ OutOfBounds(buf, 28, 8) \/ OutOfBounds(buf, 52, 2)
     \/ OutOfBounds(buf, 54, 2) \/ OutOfBounds(buf, 56, 4)
  THEN [threw |-> TRUE, value |-> FALSE]
  ELSE LET size64(at) ==
             LET high == buf[at + 5] + 256 * buf[at + 6] + 65536 * buf[at + 7]
                           + 16777216 * (buf[at + 8] % 128)
             IN CASE high < 1057634018 -> "tiny"
                  [] high > 1059301674 -> "large"
           size32(at) ==
             CASE Float32Magnitude(buf, at) < 944879383 -> "tiny"
               [] Float32Magnitude(buf, at) > 958220626 -> "large"
           close(a, b) ==
             CASE a = "tiny" /\ b = "tiny" -> TRUE
               [] a # b                    -> FALSE
           initialDelay == size64(4)
           startDelay   == size64(28)
           numPointings == getUint16(buf, 52)
           reserved     == getUint16(buf, 54)
           firstFrac    == size32(56)
       IN [threw |-> FALSE,
           value |-> /\ numPointings = 1
                     /\ reserved = 0
                     /\ close(initialDelay, startDelay)
                     /\ close(initialDelay, firstFrac)]

(* Attempt to detect which version of binary delay table is in the buffer. *)
detect_binary_version(buf) ==
  LET decide(plausibly_v1, plausibly_v2) ==
        IF plausibly_v1.threw \/ plausibly_v2.threw THEN [status |-> "threw", value |-> 0]
        ELSE IF plausibly_v1.value /\ plausibly_v2.value THEN [status |-> "err", value |-> 0]
        ELSE IF plausibly_v1.value THEN [status |-> "ok", value |-> 1]
        ELSE IF plausibly_v2.value THEN [status |-> "ok", value |-> 2]
        ELSE [status |-> "err", value |-> 0]
  IN decide(is_plausible_binary_v1(buf), is_plausible_binary_v2(buf))

(* if(resv_offset < 0) resv_offset = row_length - resv_offset *)
reserved_offset(resv_offset, row_length) ==
  IF resv_offset < 0 THEN row_length - resv_offset ELSE resv_offset

(* Check to see if a binary delay table matches the specified structure:
   succeeds with the implied number of fractional delays, fails, or throws
   the RangeError of a read outside the buffer. *)
is_viable_binary_structure(row_count, frac_type, frac_offset, np_offset, resv_offset, row_padding, view) ==
  IF row_count = 0 \/ Len(view) % row_count # 0 THEN [status |-> "err", value |-> 0]
  ELSE
    LET row_length == Len(view) \div row_count
        frac_size  == IF frac_type = "int16" THEN 2 ELSE 4
        frac_area  == row_length - row_padding - frac_offset
        frac_count == frac_area \div frac_size
        resv       == reserved_offset(resv_offset, row_length)
        in_range(p) == IF frac_type = "int16"
                       THEN getInt16(view, p) >= 0 - 2000 /\ getInt16(view, p) <= 2000
                       ELSE Float32InRange(view, p)
        RECURSIVE rows(_)
        rows(row) ==
          IF row >= row_count THEN [status |-> "ok", value |-> frac_count]
          ELSE LET row_offset == row * row_length
               IN IF OutOfBounds(view, row_offset + np_offset, 2)
                     \/ OutOfBounds(view, row_offset + resv, 2)
                    THEN [status |-> "threw", value |-> 0]
                  ELSE IF getUint16(view, row_offset + np_offset) # 1
                          \/ getUint16(view, row_offset + resv) # 0
                    THEN [status |-> "err", value |-> 0]
                  ELSE IF \E frac_id \in 0..(frac_count - 1) :
                            ~in_range(row_offset + frac_offset + frac_size * frac_id)
                    THEN [status |-> "err", value |-> 0]
                  ELSE rows(row + 1)
    IN IF frac_area % frac_size # 0 THEN [status |-> "err", value |-> 0]
       ELSE rows(0)

(* Determine the type and dimensions of a binary delay table: the first
   row count, from 0 up, that is_viable_binary_structure accepts. *)
infer_binary_structure(buf) ==
  LET structure(version) ==
        LET v1          == version = 1
            frac_type   == IF v1 THEN "int16" ELSE "float32"
            frac_offset == IF v1 THEN 18 ELSE 56
            np_offset   == IF v1 THEN 16 ELSE 52
            resv_offset == IF v1 THEN 0 - 2 ELSE 54
            row_padding == IF v1 THEN 2 ELSE 0
            max_rows    == Len(buf) \div (frac_offset + row_padding)
            RECURSIVE try(_)
            try(row_count) ==
              LET outcome(check) ==
                    IF check.status = "threw" THEN [status |-> "threw", value |-> <<>>]
                    ELSE IF check.status # "ok" THEN try(row_count + 1)
                    ELSE [status |-> "ok", value |-> <<version, row_count, check.value>>]
              IN IF row_count > max_rows THEN [status |-> "err", value |-> <<>>]
                 ELSE outcome(is_viable_binary_structure(row_count, frac_type, frac_offset,
                                                         np_offset, resv_offset, row_padding, buf))
        IN try(0)
      detected(detection) ==
        IF detection.status # "ok" THEN [status |-> detection.status, value |-> <<>>]
        ELSE structure(detection.value)
  IN detected(detect_binary_version(buf))

(* parse_delay_table_binary: an argument of -1 is left to the inference. *)
parse_delay_table_binary(bytes, version, row_count, frac_count) ==
  LET rows(ver, rc, fc) ==
        LET row_length == IF ver = 1 THEN 20 + fc * 2 ELSE 56 + fc * 4
            row(r)     == SubSeq(bytes, (r - 1) * row_length + 1, r * row_length)
        IN IF rc * row_length > Len(bytes)
             THEN [status |-> "threw", value |-> NULL]
           ELSE [status |-> "ok",
                 value  |-> [format_version |-> ver,
                             num_fracs      |-> fc,
                             entries        |-> [r \in 1..rc |->
                                                   IF ver = 1
                                                   THEN parse_delay_table_entry_binary_v1(row(r))
                                                   ELSE parse_delay_table_entry_binary_v2(row(r))]]]
      inferred(inference) ==
        IF inference.status # "ok"
          THEN [status |-> inference.status, value |-> NULL]
        ELSE IF \/ (version # 0 - 1 /\ version # inference.value[1])
                \/ (row_count # 0 - 1 /\ row_count # inference.value[2])
                \/ (frac_count # 0 - 1 /\ frac_count # inference.value[3])
          THEN [status |-> "err", value |-> NULL]
        ELSE rows(inference.value[1], inference.value[2], inference.value[3])
  IN IF version = 0 - 1 \/ row_count = 0 - 1 \/ frac_count = 0 - 1
       THEN inferred(infer_binary_structure(bytes))
     ELSE rows(version, row_count, frac_count)

(* Calculate the relative delays for translating one delay table to
   another.  The fractional delays explored are multiples of 0.5, whose
   differences are exact. *)
compare_delay_tables(from, to) ==
  IF Len(from.entries) # Len(to.entries) THEN [status |-> "err", value |-> NULL]
  ELSE IF \E i \in 1..Len(from.entries) :
            from.entries[i].rf_input # to.entries[i].rf_input
    THEN [status |-> "err", value |-> NULL]
  ELSE
    LET entry(i) ==
          LET row == to.entries[i]
              old == from.entries[i]
          IN [rf_input           |-> row.rf_input,
              ws_delay           |-> row.ws_delay - old.ws_delay,
              initial_delay      |-> row.initial_delay - old.initial_delay,
              delta_delay        |-> row.delta_delay - old.delta_delay,
              delta_delta_delay  |-> row.delta_delta_delay - old.delta_delta_delay,
              num_pointings      |-> row.num_pointings - old.num_pointings,
              start_total_delay  |-> row.start_total_delay - old.start_total_delay,
              middle_total_delay |-> row.middle_total_delay - old.middle_total_delay,
              end_total_delay    |-> row.end_total_delay - old.end_total_delay,
              reserved           |-> row.reserved - old.reserved,
              frac_delay         |-> [j \in 1..Len(row.frac_delay) |->
                                        row.frac_delay[j] - old.frac_delay[j]]]
    IN [status |-> "ok",
        value  |-> [to EXCEPT !.entries = [i \in 1..Len(to.entries) |-> entry(i)]]]

----------------------------------------------------------------------------
(* A subfile on disk, opened for reading and writing: the header lines and
   the bytes from offset header_length on. *)

(* file.read(buf, 0, length, position) *)
FileRead(f, position, length) ==
  IF position = 0
  THEN [bytesRead |-> header_length, content |-> f.header]
  ELSE LET from  == position - header_length
           avail == Max(0, Min(length, Len(f.body) - from))
       IN [bytesRead |-> avail, content |-> SubSeq(f.body, from + 1, from + avail)]

(* file.write(Buffer.from(buf), 0, length, position): RangeError when the
   buffer is shorter than length. *)
FileWriteThrows(buf, length) == length > buf.byteLength

FileWrite(f, buf, length, position) ==
  IF position = 0
  THEN [f EXCEPT !.header = buf.content]
  ELSE LET from == position - header_length
           size == Max(Len(f.body), from + length)
       IN [f EXCEPT !.body =
             [i \in 1..size |->
                IF i > from /\ i <= from + length THEN buf.content[i - from]
                ELSE IF i <= Len(f.body) THEN f.body[i] ELSE 0]]

(* meta.udpmap_offset += dt_length_diff; meta.margin_offset += dt_length_diff *)
shifted_offset(offset, dt_length_diff) == offset + dt_length_diff

SectionPresent(name, m) ==
  CASE name = "header" -> m.header_present
    [] name = "dt"     -> m.dt_present
    [] name = "udpmap" -> m.udpmap_present
    [] name = "margin" -> m.margin_present

SectionOffset(name, m) ==
  CASE name = "header" -> m.header_offset
    [] name = "dt"     -> m.dt_offset
    [] name = "udpmap" -> m.udpmap_offset
    [] name = "margin" -> m.margin_offset

SectionLength(name, m) ==
  CASE name = "header" -> m.header_length
    [] name = "dt"     -> m.dt_length
    [] name = "udpmap" -> m.udpmap_length
    [] name = "margin" -> m.margin_length

(* Basic cached read operation: the status, the buffer and the cache
   afterwards. *)
cached_read(key, position, length, f, c) ==
  LET got == cache_get(key, c)
      r   == FileRead(f, position, length)
      buf == [byteLength |-> length, content |-> r.content]
  IN IF ~got.isNull
     THEN [status |-> "ok", value |-> got.buf, cache |-> got.cache]
     ELSE IF r.bytesRead # length
     THEN [status |-> "failed", value |-> NullBuffer, cache |-> got.cache]
     ELSE [status |-> "ok", value |-> buf, cache |-> cache_add(key, buf, got.cache).cache]

(* Read section data through the cache. *)
cached_read_section(name, f, m, c) ==
  IF ~SectionPresent(name, m)
  THEN [status |-> "failed", value |-> NullBuffer, cache |-> c]
  ELSE cached_read(name, SectionOffset(name, m), SectionLength(name, m), f, c)

(* Read the header section and parse it. *)
read_header(f, m, c) ==
  LET r == cached_read_section("header", f, m, c)
  IN [status |-> r.status, cache |-> r.cache,
      value  |-> IF r.status = "ok" THEN parse_header(r.value.content) ELSE <<>>]

(* The geometry constants load_subfile fixes.  The packet is scaled from
   2048 samples to 4 so that a whole subfile stays a few hundred bytes. *)
LoadConstants == [fft_per_block |-> 10, margin_packets |-> 2, samples_per_packet |-> 4]

(* load_subfile up to the read of the delay table: the Metadata derived
   from the parsed header. *)
load_metadata(header) ==
  LET k                  == LoadConstants
      num_sources        == HeaderValue(header, "NINPUTS", 0)
      sample_rate        == HeaderValue(header, "SAMPLE_RATE", 0)
      secs_per_subobs    == HeaderValue(header, "SECS_PER_SUBOBS", 0)
      samples_per_line   == HeaderValue(header, "NTIMESAMPLES", 0)
      margin_samples     == HeaderValue(header, "MARGIN_SAMPLES",
                                        k.margin_packets * k.samples_per_packet)
      mwax_sub_version   == HeaderValue(header, "MWAX_SUB_VER", 1)
      blocks_per_sub     == (sample_rate * secs_per_subobs) \div samples_per_line
      sub_line_size      == samples_per_line * 2
      num_frac_delays    == blocks_per_sub * k.fft_per_block
      udp_per_rf_per_sub == (sample_rate * secs_per_subobs) \div k.samples_per_packet
      frac_delay_size    == IF mwax_sub_version = 1 THEN 2 ELSE 4
      block_length       == sub_line_size * num_sources
      dt_entry_min_size  == IF mwax_sub_version = 1 THEN 20 ELSE 56
      dt_length          == num_sources * (num_frac_delays * frac_delay_size + dt_entry_min_size)
      udpmap_length      == (num_sources * udp_per_rf_per_sub) \div 8
  IN [header_present     |-> TRUE,
      header_offset      |-> 0,
      header_length      |-> header_length,
      dt_present         |-> TRUE,
      dt_offset          |-> 4096,
      num_sources        |-> num_sources,
      samples_per_line   |-> samples_per_line,
      margin_samples     |-> margin_samples,
      mwax_sub_version   |-> mwax_sub_version,
      blocks_per_sub     |-> blocks_per_sub,
      sub_line_size      |-> sub_line_size,
      num_frac_delays    |-> num_frac_delays,
      frac_delay_size    |-> frac_delay_size,
      block_length       |-> block_length,
      dt_entry_min_size  |-> dt_entry_min_size,
      dt_length          |-> dt_length,
      data_present       |-> TRUE,
      data_offset        |-> header_length + block_length,
      data_length        |-> block_length * blocks_per_sub,
      udpmap_present     |-> TRUE,
      udpmap_offset      |-> 4096 + dt_length,
      udpmap_length      |-> udpmap_length,
      margin_present     |-> TRUE,
      margin_offset      |-> 4096 + dt_length + udpmap_length,
      margin_length      |-> num_sources * margin_samples * 2 * 2,
      delay_table        |-> NULL,
      sources            |-> <<>>]

----------------------------------------------------------------------------
(* The subfiles handed to the upgrade command. *)

(* The delay-table rows of the file: source ids 10, 20, whole-sample delays
   -1, 2, and fractional delays that start 1.0, -1.5. *)
UpgradeEntries(ns, nfd) ==
  [r \in 1..ns |->
     [rf_input           |-> SourceIds[r],
      ws_delay           |-> IF r = 1 THEN -1 ELSE 2,
      initial_delay      |-> 0,
      delta_delay        |-> 0,
      delta_delta_delay  |-> 0,
      start_total_delay  |-> 0,
      middle_total_delay |-> 0,
      end_total_delay    |-> 0,
      num_pointings      |-> 1,
      reserved           |-> 0,
      frac_delay         |-> [i \in 1..nfd |->
                                IF i = 1 THEN 1000 ELSE IF i = 2 THEN -1500
                                ELSE IF i = 3 THEN 500 ELSE 0]]]

UpgradeHeader(c) ==
  <<[k |-> "HDR_SIZE", v |-> 4096], [k |-> "OBS_ID", v |-> 1],
    [k |-> "SUBOBS_ID", v |-> 1], [k |-> "NTIMESAMPLES", v |-> c.spl],
    [k |-> "NINPUTS", v |-> c.ns], [k |-> "SECS_PER_SUBOBS", v |-> 1]>>
  \o (IF c.custom THEN <<[k |-> "CUSTOM_KEY", v |-> 7]>> ELSE <<>>)
  \o (IF c.ms # 0 THEN <<[k |-> "MARGIN_SAMPLES", v |-> c.ms]>> ELSE <<>>)
  \o (IF c.ver # 0 THEN <<[k |-> "MWAX_SUB_VER", v |-> c.ver]>> ELSE <<>>)
  \o <<[k |-> "SAMPLE_RATE", v |-> c.spl]>>
  \o (IF c.fds THEN <<[k |-> "FRAC_DELAY_SIZE", v |-> IF c.ver = 2 THEN 4 ELSE 2]>>
               ELSE <<>>)

(* The file of configuration c: block 0 laid out for its version, one data
   block, and the file cut short inside block 0 when c.cut. *)
UpgradeFile(c) ==
  LET header == UpgradeHeader(c)
      m      == load_metadata(parse_header(header))
      table  == [format_version |-> m.mwax_sub_version,
                 num_fracs      |-> m.num_frac_delays,
                 entries        |-> UpgradeEntries(m.num_sources, m.num_frac_delays)]
      dt     == serialise_delay_table(table).content
      udpmap == [i \in 1..m.udpmap_length |-> 220 + i]
      margin == [i \in 1..m.margin_length |-> 150 + (i % 50)]
      prefix == dt \o udpmap \o margin
      whole  == [i \in 1..(2 * m.block_length) |->
                   IF i <= Len(prefix) THEN prefix[i]
                   ELSE IF i <= m.block_length THEN 0
                   ELSE 100 + (i % 40)]
  IN [header |-> header,
      body   |-> IF c.cut THEN SubSeq(whole, 1, Len(dt) + Len(udpmap)) ELSE whole]

UpgradeConfigs ==
  {c \in [ns : {1, 2}, spl : {64, 96}, ver : {0, 1, 2}, ms : {0, 2},
          custom : BOOLEAN, fds : BOOLEAN, cut : BOOLEAN] :
     c.cut => (c.ver = 1 /\ c.ns = 1 /\ ~c.custom /\ ~c.fds)}

----------------------------------------------------------------------------
(* The upgrade command: load_subfile, then upgrade_delay_table, which a
   client of the library may call again on the same open subfile. *)

UpgradeInit ==
  /\ \E c \in UpgradeConfigs : ctx_file = UpgradeFile(c)
  /\ ctx_meta = NULL
  /\ upc = "closed"
  /\ cache = cache_create(2 ^ 30)
  /\ hist = <<>>
  /\ prev = cache_create(0)
  /\ ulocal = NULL
  /\ uresult = "none"
  /\ ucalls = 0
  /\ wlog = <<>>
  /\ ufile0 = NULL
  /\ meta0 = NULL
  /\ uorig = NULL
  /\ WriterIdle
  /\ ResampleIdle
  /\ CodecIdle

(* load_subfile(fname, 'r+') *)
LoadSubfile ==
  /\ UNCHANGED <<writerVars, hist, prev, resampleVars, codecVars>>
  /\ upc = "closed"
  /\ LET h  == read_header(ctx_file, [header_present |-> TRUE, header_offset |-> 0,
                                      header_length |-> header_length],
                           cache)
         m  == load_metadata(h.value)
         dt == cached_read_section("dt", ctx_file, m, h.cache)
         table == parse_delay_table_binary(dt.value.content, m.mwax_sub_version,
                                           m.num_sources, m.num_frac_delays).value
         loaded == [m EXCEPT !.delay_table = table,
                             !.sources = [i \in 1..Len(table.entries) |->
                                            table.entries[i].rf_input]]
     IN /\ h.status = "ok"
        /\ dt.status = "ok"
        /\ cache' = dt.cache
        /\ ctx_meta' = loaded
        /\ uorig' = [file |-> ctx_file, meta |-> loaded]
  /\ upc' = "loaded"
  /\ UNCHANGED <<ctx_file, ulocal, uresult, ucalls, wlog, ufile0, meta0>>

(* upgrade_delay_table is called: the version test, and for a version-2
   subfile the return. *)
UpgradeCall ==
  /\ UNCHANGED notUpgradeVars
  /\ upc \in {"loaded", "returned"}
  /\ upc = "returned" => uresult = "ok"
  /\ ucalls < MaxCalls
  /\ ucalls' = ucalls + 1
  /\ wlog' = <<>>
  /\ ufile0' = ctx_file
  /\ meta0' = ctx_meta
  /\ ulocal' = NULL
  /\ IF ctx_meta.mwax_sub_version = 2
     THEN upc' = "returned" /\ uresult' = "ok"
     ELSE upc' = "read" /\ uresult' = "none"
  /\ UNCHANGED <<ctx_file, ctx_meta, uorig>>

(* The two section reads under await_all, completing in either order, and
   the metadata update that follows them. *)
UpgradeRead ==
  /\ UNCHANGED <<writerVars, hist, prev, resampleVars, codecVars>>
  /\ upc = "read"
  /\ \E first \in {"udpmap", "margin"} :
       LET second == IF first = "udpmap" THEN "margin" ELSE "udpmap"
           r1 == cached_read_section(first, ctx_file, ctx_meta, cache)
           r2 == cached_read_section(second, ctx_file, ctx_meta, r1.cache)
           udpmap == IF first = "udpmap" THEN r1.value ELSE r2.value
           margin == IF first = "udpmap" THEN r2.value ELSE r1.value
           new_dt_length == ctx_meta.num_sources * (56 + ctx_meta.num_frac_delays * 4)
           dt_length_diff == new_dt_length - ctx_meta.dt_length
       IN /\ cache' = r2.cache
          /\ IF r1.status # "ok" \/ r2.status # "ok"
             THEN /\ upc' = "returned"
                  /\ uresult' = "threw"
                  /\ UNCHANGED <<ctx_meta, ulocal>>
             ELSE /\ upc' = "write_udpmap"
                  /\ ulocal' = [udpmap |-> udpmap, margin |-> margin]
                  /\ ctx_meta' = [ctx_meta EXCEPT
                       !.frac_delay_size = 4,
                       !.dt_entry_min_size = 56,
                       !.dt_length = new_dt_length,
                       !.udpmap_offset = shifted_offset(@, dt_length_diff),
                       !.margin_offset = shifted_offset(@, dt_length_diff),
                       !.delay_table.format_version = 2]
                  /\ UNCHANGED uresult
  /\ UNCHANGED <<ctx_file, ucalls, wlog, ufile0, meta0, uorig>>

(* await overwrite_section(name, buf, meta, file) *)
OverwriteSection(name, buf, next) ==
  /\ UNCHANGED notUpgradeVars
  /\ IF ~SectionPresent(name, ctx_meta)
     THEN UNCHANGED <<ctx_file, wlog>> /\ upc' = next /\ UNCHANGED uresult
     ELSE IF FileWriteThrows(buf, SectionLength(name, ctx_meta))
     THEN UNCHANGED <<ctx_file, wlog>> /\ upc' = "returned" /\ uresult' = "threw"
     ELSE /\ ctx_file' = FileWrite(ctx_file, buf, SectionLength(name, ctx_meta),
                                   SectionOffset(name, ctx_meta))
          /\ wlog' = Append(wlog, [position |-> SectionOffset(name, ctx_meta),
                                   length   |-> SectionLength(name, ctx_meta)])
          /\ upc' = next
          /\ UNCHANGED uresult
  /\ UNCHANGED <<ctx_meta, ulocal, ucalls, ufile0, meta0, uorig>>

UpgradeWriteUdpmap ==
  /\ upc = "write_udpmap"
  /\ OverwriteSection("udpmap", ulocal.udpmap, "write_margin")

UpgradeWriteMargin ==
  /\ upc = "write_margin"
  /\ OverwriteSection("margin", ulocal.margin, "write_dt")

(* await overwrite_delay_table(meta.delay_table, meta, file) *)
UpgradeWriteDt ==
  /\ upc = "write_dt"
  /\ OverwriteSection("dt", serialise_delay_table(ctx_meta.delay_table), "read_header")

(* read_header, the two set_header_value calls, serialise_header and the
   write of the header section. *)
UpgradeWriteHeader ==
  /\ UNCHANGED <<writerVars, hist, prev, resampleVars, codecVars>>
  /\ upc = "read_header"
  /\ LET h  == read_header(ctx_file, ctx_meta, cache)
         s1 == set_header_value("FRAC_DELAY_SIZE", 4, h.value, TRUE)
         s2 == set_header_value("MWAX_SUB_VER", 2, s1.header, TRUE)
         headerBuf == serialise_header(s2.header)
     IN /\ cache' = h.cache
        /\ IF h.status # "ok" \/ s1.status # "ok" \/ s2.status # "ok"
           THEN /\ uresult' = "failed"
                /\ UNCHANGED <<ctx_file, wlog>>
           ELSE /\ uresult' = "ok"
                /\ ctx_file' = FileWrite(ctx_file, headerBuf, ctx_meta.header_length,
                                         ctx_meta.header_offset)
                /\ wlog' = Append(wlog, [position |-> ctx_meta.header_offset,
                                         length   |-> ctx_meta.header_length])
  /\ upc' = "returned"
  /\ UNCHANGED <<ctx_meta, ulocal, ucalls, ufile0, meta0, uorig>>

UpgradeNext ==
  \/ LoadSubfile
  \/ UpgradeCall
  \/ UpgradeRead
  \/ UpgradeWriteUdpmap
  \/ UpgradeWriteMargin
  \/ UpgradeWriteDt
  \/ UpgradeWriteHeader

SpecUpgrade == UpgradeInit /\ [][UpgradeNext]_vars

----------------------------------------------------------------------------
(* Properties of the upgrade *)

(* The length bytes of file f at file offset position. *)
BytesAt(f, position, length) ==
  SubSeq(f.body, position - header_length + 1, position - header_length + length)

(* The file's header has the line "key value". *)
HeaderLine(f, key, value) ==
  \E i \in 1..Len(f.header) : f.header[i].k = key /\ f.header[i].v = value

(* The growth of the delay table of a version-1 subfile with Metadata m. *)
DtGrowth(m) == m.num_sources * (56 + m.num_frac_delays * 4) - m.dt_length

(* The first call of upgrade_delay_table on a version-1 subfile has returned
   success. *)
UpgradedV1 ==
  /\ upc = "returned"
  /\ uresult = "ok"
  /\ ucalls = 1
  /\ uorig.meta.mwax_sub_version = 1

(* C9: after upgrade succeeds on a version-1 subfile the Metadata has
   mwax_sub_version 2, frac_delay_size 4, and dt_length, udpmap_offset and
   margin_offset shifted by the growth of the delay table; the header of
   the file has MWAX_SUB_VER 2 and FRAC_DELAY_SIZE 4; udpmap and margin are
   byte-identical to the originals at their new offsets. *)
C9_UpgradeLayout ==
  UpgradedV1 =>
    LET o == uorig.meta
    IN /\ ctx_meta.mwax_sub_version = 2
       /\ ctx_meta.frac_delay_size = 4
       /\ ctx_meta.dt_length = o.dt_length + DtGrowth(o)
       /\ ctx_meta.udpmap_offset = o.udpmap_offset + DtGrowth(o)
       /\ ctx_meta.margin_offset = o.margin_offset + DtGrowth(o)
       /\ HeaderLine(ctx_file, "MWAX_SUB_VER", 2)
       /\ HeaderLine(ctx_file, "FRAC_DELAY_SIZE", 4)
       /\ BytesAt(ctx_file, ctx_meta.udpmap_offset, ctx_meta.udpmap_length)
            = BytesAt(uorig.file, o.udpmap_offset, o.udpmap_length)
       /\ BytesAt(ctx_file, ctx_meta.margin_offset, ctx_meta.margin_length)
            = BytesAt(uorig.file, o.margin_offset, o.margin_length)

(* C10: upgrade on a subfile whose Metadata says version 2 returns success
   without a write and without a change of the Metadata; and the second
   call on the same open subfile, directly after a successful upgrade of a
   version-1 subfile, returns success without a write, a change of the file
   or a change of the Metadata. *)
C10_UpgradeIdempotent ==
  /\ (upc = "returned" /\ ucalls >= 1 /\ meta0.mwax_sub_version = 2) =>
       (uresult = "ok" /\ wlog = <<>> /\ ctx_meta = meta0 /\ ctx_file = ufile0)
  /\ (upc = "returned" /\ ucalls = 2 /\ uorig.meta.mwax_sub_version = 1) =>
       (uresult = "ok" /\ wlog = <<>> /\ ctx_meta = meta0 /\ ctx_file = ufile0)

----------------------------------------------------------------------------
(* resample as a state machine.  The subfile has two sources, six samples
   per line and a margin of two samples per side, so that delay table,
   packet map and margin fit in block 0; the rules are scale resamplers. *)

ResampleMeta(nb) == MakeMeta(2, 6, nb, 2, 4, 2)

(* Component c (0 real, 1 imaginary) of the sample at stream position p of
   source index s; position -1 is the sample before block 1. *)
ResampleComponent(s, p, c) ==
  IF s = 0 THEN (IF c = 0 THEN p + 2 ELSE 0 - (p + 32))
           ELSE (IF c = 0 THEN p + 71 ELSE 0 - (p + 101))

ResampleSample(s, p) ==
  (ResampleComponent(s, p, 0) % 256) + 256 * (ResampleComponent(s, p, 1) % 256)

ResampleBlocks(meta) ==
  [b \in 1..meta.blocks_per_sub |->
     [k \in 1..(meta.num_sources * meta.samples_per_line) |->
        ResampleSample((k - 1) \div meta.samples_per_line,
                       (b - 1) * meta.samples_per_line + ((k - 1) % meta.samples_per_line))]]

(* Head then tail margin of each source: the sample before the subfile and
   its first sample, its last sample and the sample after it. *)
ResampleMargin(meta) ==
  LET last == meta.blocks_per_sub * meta.samples_per_line - 1
      one(s) == <<ResampleSample(s, 0 - 1), ResampleSample(s, 0),
                  ResampleSample(s, last), ResampleSample(s, last + 1)>>
  IN one(0) \o one(1)

ResampleRules == {NoRule, ScaleRule(1, 1), ScaleRule(2, 1), ScaleRule(1, 2)}

ResampleConfigs ==
  {[meta   |-> ResampleMeta(nb),
    file   |-> [header |-> <<"HDR">>,
                block0 |-> InputBlock0(ResampleMeta(nb),
                                       ResampleMargin(ResampleMeta(nb)), 0),
                blocks |-> ResampleBlocks(ResampleMeta(nb)),
                failAt |-> k],
    fns    |-> <<f0, f1>>,
    region |-> r] :
     nb \in 1..MaxBlocks, k \in 0..MaxBlocks, f0 \in ResampleRules,
     f1 \in ResampleRules, r \in 0..6}

ResampleInit ==
  /\ rsIn \in {c \in ResampleConfigs : c.file.failAt <= c.meta.blocks_per_sub}
  /\ rsPc = "start"
  /\ rsBlock = 0
  /\ rsOut = <<>>
  /\ rsCalls = <<>>
  /\ rsResult = "none"
  /\ WriterIdle
  /\ CacheIdle
  /\ UpgradeIdle
  /\ CodecIdle

(* read_margin and the entry into the block loop. *)
ResampleStart ==
  /\ UNCHANGED notResampleVars
  /\ rsPc = "start"
  /\ LET marginResult == read_section("margin", rsIn.file, rsIn.meta)
     IN IF marginResult.status # "ok"
        THEN rsPc' = "returned" /\ rsResult' = "err" /\ UNCHANGED rsBlock
        ELSE rsPc' = "loop" /\ rsBlock' = 1 /\ UNCHANGED rsResult
  /\ UNCHANGED <<rsIn, rsOut, rsCalls>>

(* One iteration of the block loop: the three reads under await_all,
   resample_block, the awaited write and the clearing of the output block. *)
ResampleBlock ==
  /\ UNCHANGED notResampleVars
  /\ rsPc = "loop"
  /\ rsBlock <= rsIn.meta.blocks_per_sub
  /\ LET readResult == await_all(<<read_block_or_null(rsBlock - 1, rsIn.file, rsIn.meta),
                                   read_block(rsBlock, rsIn.file, rsIn.meta),
                                   read_block_or_null(rsBlock + 1, rsIn.file, rsIn.meta)>>)
         view(x)    == IF x = NULL THEN NULL ELSE Int8Array(BytesOf(x))
         margin     == Int8Array(read_section("margin", rsIn.file, rsIn.meta).value)
     IN IF readResult.status # "ok"
        THEN /\ rsPc' = "returned"
             /\ rsResult' = "err"
             /\ UNCHANGED <<rsBlock, rsOut, rsCalls>>
        ELSE LET out == resample_block(rsIn.fns, rsIn.region,
                                       view(readResult.value[2]),
                                       view(readResult.value[1]),
                                       view(readResult.value[3]),
                                       margin, rsIn.meta)
             IN /\ rsOut' = Append(rsOut, [num |-> rsBlock, buf |-> Uint8Of(out.block)])
                /\ rsCalls' = out.calls
                /\ rsBlock' = rsBlock + 1
                /\ UNCHANGED <<rsPc, rsResult>>
  /\ UNCHANGED rsIn

(* The loop runs out and resample returns the number of bytes written. *)
ResampleReturn ==
  /\ UNCHANGED notResampleVars
  /\ rsPc = "loop"
  /\ rsBlock > rsIn.meta.blocks_per_sub
  /\ rsPc' = "returned"
  /\ rsResult' = "ok"
  /\ UNCHANGED <<rsIn, rsBlock, rsOut, rsCalls>>

ResampleNext ==
  \/ ResampleStart
  \/ ResampleBlock
  \/ ResampleReturn

SpecResample == ResampleInit /\ [][ResampleNext]_vars

----------------------------------------------------------------------------
(* The data section streamed in every mode of write_subfile: the loops of
   write_subfile itself (copy, remap), write_time_shifted_data and
   resample. *)

StreamingInit == WriterInit \/ ResampleInit

StreamingNext == WriterNext \/ ResampleNext

SpecStreaming == StreamingInit /\ [][StreamingNext]_vars

----------------------------------------------------------------------------
(* Properties of the resampler *)

(* The signed bytes of the input's margin section and of input block b. *)
ResampleMarginBytes == Int8Array(BytesOf(ResampleMargin(rsIn.meta)))

ResampleInputBytes(b) == Int8Array(BytesOf(rsIn.file.blocks[b]))

ResampleLast == rsIn.meta.blocks_per_sub * rsIn.meta.samples_per_line - 1

ResampleHalf == rsIn.meta.margin_samples \div 2

(* Component c of the sample at stream position p of source index s, read
   from the input: a data line, the first half of the head margin before
   the subfile, the second half of the tail margin after it. *)
ResampleStreamAt(s, p, c) ==
  LET spl == rsIn.meta.samples_per_line
      ms  == rsIn.meta.margin_samples
  IN IF p < 0
       THEN ResampleMarginBytes[s * ms * 4 + 2 * (p + ResampleHalf) + c + 1]
     ELSE IF p > ResampleLast
       THEN ResampleMarginBytes[s * ms * 4 + ms * 2 + ms
                                  + 2 * (p - ResampleLast - 1) + c + 1]
     ELSE ResampleInputBytes((p \div spl) + 1)[s * spl * 2 + 2 * (p % spl) + c + 1]

(* The n samples of source index s from stream position p on. *)
ResampleStreamRange(s, p, n) ==
  [k \in 1..(2 * n) |-> ResampleStreamAt(s, p + ((k - 1) \div 2), (k - 1) % 2)]

(* Stream position of sample sampleIdx of the block written last. *)
ResamplePosition(sampleIdx) ==
  (rsOut[Len(rsOut)].num - 1) * rsIn.meta.samples_per_line + sampleIdx

(* C13: for every transform call of the block written last and every region
   r >= 1, the prev window is the r samples of the source's stream just
   before the sample and the next window the r samples just after it,
   whenever the stream (data lines, then the non-overlapping margin halves
   at the subfile edges) holds that many. *)
C13_ResampleWindows ==
  \A i \in 1..Len(rsCalls) :
    LET call == rsCalls[i]
        r    == rsIn.region
        p    == ResamplePosition(call.sampleIdx)
    IN r >= 1 =>
         /\ (p - r >= 0 - ResampleHalf =>
               call.prevW = ResampleStreamRange(call.source, p - r, r))
         /\ (p + r <= ResampleLast + ResampleHalf =>
               call.nextW = ResampleStreamRange(call.source, p + 1, r))

(* Clamp to the signed 8-bit range. *)
ClampInt8(n) == Max(0 - 128, Min(127, n))

(* C14: every component resample_block stored for a selected source is the
   transform's result rounded to the nearest integer and clamped to
   [-128, 127]. *)
C14_ResampleClamp ==
  rsOut # <<>> =>
    \A i \in 1..Len(rsCalls) : \A c \in 0..1 :
      LET call == rsCalls[i]
          at   == call.source * rsIn.meta.samples_per_line * 2
                    + call.sampleIdx * 2 + c + 1
      IN Int8Array(rsOut[Len(rsOut)].buf)[at] = ClampInt8(MathRound(call.result[c + 1]))

(* The bytes of line s of a block of bytes. *)
ResampleLineOf(bytes, s) ==
  SubSeq(bytes, s * rsIn.meta.samples_per_line * 2 + 1,
                (s + 1) * rsIn.meta.samples_per_line * 2)

(* C15: in every written block, every line of a source that has no rule is
   byte for byte the same line of the input block of that number. *)
C15_ResampleUnselected ==
  \A j \in 1..Len(rsOut) : \A s \in 0..(rsIn.meta.num_sources - 1) :
    rsIn.fns[s + 1] = NoRule =>
      ResampleLineOf(rsOut[j].buf, s)
        = ResampleLineOf(BytesOf(rsIn.file.blocks[rsOut[j].num]), s)

(* resample has written two or more blocks with region 2, source 0 without
   a rule and source 1 doubled: line 0 of the last block is the input line
   and line 1 is not. *)
C15_Witness ==
  /\ rsPc = "returned"
  /\ rsResult = "ok"
  /\ rsIn.region = 2
  /\ rsIn.fns = <<NoRule, ScaleRule(2, 1)>>
  /\ Len(rsOut) = rsIn.meta.blocks_per_sub
  /\ Len(rsOut) >= 2
  /\ LET b == rsOut[Len(rsOut)]
     IN /\ ResampleLineOf(b.buf, 0) = ResampleLineOf(BytesOf(rsIn.file.blocks[b.num]), 0)
        /\ ResampleLineOf(b.buf, 1) # ResampleLineOf(BytesOf(rsIn.file.blocks[b.num]), 1)
        /\ \E k \in 1..Len(b.buf) : b.buf[k] # 0

----------------------------------------------------------------------------
(* Delay-table CSV: version detection.  A parsed CSV is a sequence of rows,
   a row a sequence of cell texts. *)

MaxRows == 2

(* row[i]: the cell text, or undefined beyond the end of the row. *)
CsvCell(row, i) == IF i + 1 <= Len(row) THEN row[i + 1] ELSE "undefined"

(* Looks for all ones in the two possible num_pointings columns. *)
detect_csv_version(csv) ==
  IF \A r \in 1..Len(csv) : CsvCell(csv[r], 5) = "1"
    THEN [status |-> "ok", value |-> 1]
  ELSE IF \A r \in 1..Len(csv) : CsvCell(csv[r], 8) = "1"
    THEN [status |-> "ok", value |-> 2]
  ELSE [status |-> "err", value |-> 0]

(* Rectangular tables of one row or more, seven or ten columns wide; the
   cells of columns 5 and 8 vary. *)
CsvRow(width, c5, c8) ==
  [i \in 1..width |-> IF i = 6 THEN c5 ELSE IF i = 9 THEN c8 ELSE "7"]

CsvTables ==
  UNION {[1..n -> {CsvRow(w, c5, c8) : c5 \in {"0", "1", "2"}, c8 \in {"0", "1", "2"}}] :
           n \in 1..MaxRows, w \in {7, 10}}

----------------------------------------------------------------------------
(* Delay tables in memory.  Every row has the same whole-sample delay ws and
   fractional delays that start a, b; a version-1 row carries its first
   fractional delay (in millisamples) as initial_delay, a version-2 row has
   float64 delays of 0. *)

FracMillis == {0, 1, 500, 700, 0 - 700, 1000, 0 - 1500, 2000}

CodecTable(version, nr, nf, a, b, ws) ==
  [format_version |-> version,
   num_fracs      |-> nf,
   entries        |-> [r \in 1..nr |->
     [rf_input           |-> 10 * r,
      ws_delay           |-> ws,
      initial_delay      |-> IF version = 1 THEN a ELSE 0,
      delta_delay        |-> 0,
      delta_delta_delay  |-> 0,
      start_total_delay  |-> 0,
      middle_total_delay |-> 0,
      end_total_delay    |-> 0,
      num_pointings      |-> 1,
      reserved           |-> 0,
      frac_delay         |-> [i \in 1..nf |-> IF i = 1 THEN a ELSE b]]]]

CodecTables ==
  {CodecTable(x[1], x[2], x[3], x[4], x[5], x[6]) :
     x \in {y \in {1, 2} \X (1..(MaxRows + 1)) \X (0..2) \X FracMillis \X FracMillis
                    \X {0, 0 - 1, 3} :
              /\ (y[1] = 2 => y[4] = 0)
              /\ (y[3] = 0 => y[4] = 0)
              /\ (y[3] <= 1 => y[5] = 0)}}

(* The tables compared: version 2, one fractional delay a, the source ids
   and the whole-sample delay of the rows chosen freely. *)
CompareTables(a) ==
  UNION {{[CodecTable(2, n, 1, a, 0, ws) EXCEPT
             !.entries = [r \in 1..n |-> [@[r] EXCEPT !.rf_input = ids[r]]]] :
            ids \in [1..n -> {10, 20}], ws \in {0 - 1, 0, 2}} : n \in 1..MaxRows}

(* The header lines parsed: up to three different keys in any order, two of
   them registered; HeaderKeysAlphabetical lists the keys in alphabetical
   order. *)
HeaderKeysAlphabetical == <<"AAA", "HDR_SIZE", "MWAX_SUB_VER", "OBS_ID", "ZZZ">>

HeaderLineLists ==
  LET keys == {HeaderKeysAlphabetical[i] : i \in 1..Len(HeaderKeysAlphabetical)}
      line(k) == [k |-> k, v |-> 4096]
  IN    {<<line(a)>> : a \in keys}
   \cup {<<line(x[1]), line(x[2])>> : x \in {y \in keys \X keys : y[1] # y[2]}}
   \cup {<<line(x[1]), line(x[2]), line(x[3])>> :
           x \in {y \in keys \X keys \X keys :
                    y[1] # y[2] /\ y[1] # y[3] /\ y[2] # y[3]}}

(* Header buffers as text: one or two "KEY value" lines over a registered
   number field, a registered string field and an unregistered key.  The
   value of the number field is a numeral. *)
HeaderTextValues(k) ==
  IF k = "HDR_SIZE"
  THEN {<<"4", "0", "9", "6">>, <<"0", "7">>, <<"1", ".", "5">>, <<"-", "3">>}
  ELSE {<<"7">>, <<"a", "b">>, <<"a", " ", "b">>}

HeaderTextLines ==
  UNION {{[k |-> k, v |-> v] : v \in HeaderTextValues(k)} : k \in {"HDR_SIZE", "MODE", "ZZZ"}}

HeaderTexts ==
  {<<l>> : l \in HeaderTextLines} \cup {<<l, m>> : l \in HeaderTextLines, m \in HeaderTextLines}

----------------------------------------------------------------------------
(* The codec functions, each applied to inputs drawn from bounded sets. *)

CodecInit ==
  /\ \/ codecIn \in {[fn |-> "detect_csv_version", csv |-> t] : t \in CsvTables}
     \/ codecIn \in {[fn |-> "round_trip", table |-> t, auto |-> a] :
                       t \in CodecTables, a \in BOOLEAN}
     \/ codecIn \in {[fn |-> "compare_delay_tables", from |-> f, to |-> t] :
                       f \in CompareTables(0), t \in CompareTables(500)}
     \/ codecIn \in {[fn |-> "serialise_header", lines |-> l, set |-> k] :
                       l \in HeaderLineLists, k \in {"none", "MWAX_SUB_VER", "AAA"}}
     \/ codecIn \in {[fn |-> "header_round_trip", lines |-> l] : l \in HeaderTexts}
  /\ codecPc = "call"
  /\ codecOut = NULL
  /\ WriterIdle
  /\ CacheIdle
  /\ UpgradeIdle
  /\ ResampleIdle

DetectCsvVersion ==
  /\ UNCHANGED notCodecVars
  /\ codecPc = "call"
  /\ codecIn.fn = "detect_csv_version"
  /\ codecOut' = detect_csv_version(codecIn.csv)
  /\ codecPc' = "done"
  /\ UNCHANGED codecIn

(* serialise_delay_table(table) *)
SerialiseDelayTable ==
  /\ UNCHANGED notCodecVars
  /\ codecPc = "call"
  /\ codecIn.fn = "round_trip"
  /\ codecOut' = serialise_delay_table(codecIn.table)
  /\ codecPc' = "serialised"
  /\ UNCHANGED codecIn

(* parse_delay_table_binary(buf): the structure is inferred. *)
ParseDelayTableAuto ==
  /\ UNCHANGED notCodecVars
  /\ codecPc = "serialised"
  /\ codecIn.auto
  /\ codecOut' = parse_delay_table_binary(codecOut.content, 0 - 1, 0 - 1, 0 - 1)
  /\ codecPc' = "done"
  /\ UNCHANGED codecIn

(* parse_delay_table_binary(buf, version, row_count, frac_count) as
   load_subfile calls it. *)
ParseDelayTableGiven ==
  /\ UNCHANGED notCodecVars
  /\ codecPc = "serialised"
  /\ ~codecIn.auto
  /\ codecOut' = parse_delay_table_binary(codecOut.content,
                                          codecIn.table.format_version,
                                          Len(codecIn.table.entries),
                                          codecIn.table.num_fracs)
  /\ codecPc' = "done"
  /\ UNCHANGED codecIn

(* compare_delay_tables(from, to) *)
CompareDelayTables ==
  /\ UNCHANGED notCodecVars
  /\ codecPc = "call"
  /\ codecIn.fn = "compare_delay_tables"
  /\ codecOut' = compare_delay_tables(codecIn.from, codecIn.to)
  /\ codecPc' = "done"
  /\ UNCHANGED codecIn

(* parse_header, a forced set_header_value of one key (or none), then
   serialise_header. *)
SerialiseHeader ==
  /\ UNCHANGED notCodecVars
  /\ codecPc = "call"
  /\ codecIn.fn = "serialise_header"
  /\ LET parsed == parse_header(codecIn.lines)
         header == IF codecIn.set = "none" THEN parsed
                   ELSE set_header_value(codecIn.set, 2, parsed, TRUE).header
     IN codecOut' = [header |-> header, buf |-> serialise_header(header)]
  /\ codecPc' = "done"
  /\ UNCHANGED codecIn

(* serialise_header(parse_header(buf)) on the text of the header. *)
HeaderRoundTrip ==
  /\ UNCHANGED notCodecVars
  /\ codecPc = "call"
  /\ codecIn.fn = "header_round_trip"
  /\ LET header == parse_header_text(codecIn.lines)
     IN codecOut' = [header |-> header,
                     lines  |-> header_text_lines(header),
                     buf    |-> serialise_header(header)]
  /\ codecPc' = "done"
  /\ UNCHANGED codecIn

CodecNext ==
  \/ DetectCsvVersion
  \/ HeaderRoundTrip
  \/ CompareDelayTables
  \/ SerialiseHeader
  \/ SerialiseDelayTable
  \/ ParseDelayTableAuto
  \/ ParseDelayTableGiven

SpecCodec == CodecInit /\ [][CodecNext]_vars

----------------------------------------------------------------------------
(* Properties of the codecs *)

AllOnes(csv, col) == \A r \in 1..Len(csv) : CsvCell(csv[r], col) = "1"

(* C16: detect_csv_version answers 1 only when column 5 is "1" in every row
   and column 8 is not, answers 2 only when column 8 is "1" in every row
   and column 5 is not, and fails when both columns are "1" in every row. *)
C16_CsvVersionDetection ==
  (codecPc = "done" /\ codecIn.fn = "detect_csv_version") =>
    /\ (codecOut.status = "ok" /\ codecOut.value = 1) =>
         (AllOnes(codecIn.csv, 5) /\ ~AllOnes(codecIn.csv, 8))
    /\ (codecOut.status = "ok" /\ codecOut.value = 2) =>
         (AllOnes(codecIn.csv, 8) /\ ~AllOnes(codecIn.csv, 5))
    /\ (AllOnes(codecIn.csv, 5) /\ AllOnes(codecIn.csv, 8)) =>
         codecOut.status = "err"

RoundTripDone(auto) ==
  codecPc = "done" /\ codecIn.fn = "round_trip" /\ codecIn.auto = auto

(* C17: parsing the serialisation of a version-1 or version-2 table of one
   row or more, with version, row count and frac count all inferred,
   succeeds with the table's version, number of rows and number of
   fractional delays. *)
C17_AutoDetectRoundTrip ==
  RoundTripDone(TRUE) =>
    /\ codecOut.status = "ok"
    /\ codecOut.value.format_version = codecIn.table.format_version
    /\ Len(codecOut.value.entries) = Len(codecIn.table.entries)
    /\ codecOut.value.num_fracs = codecIn.table.num_fracs

(* C18: parsing the version-1 serialisation of a version-1 table whose
   fractional delays are whole millisamples within +-2000, with the table's
   row and frac counts, gives the table back: every field equal, every
   fractional delay the same number of millisamples. *)
C18_V1BinaryRoundTrip ==
  (RoundTripDone(FALSE) /\ codecIn.table.format_version = 1) =>
    /\ codecOut.status = "ok"
    /\ codecOut.value = codecIn.table

(* C19: compare_delay_tables succeeds only for two tables of the same
   number of rows with the same rf_input at every row index, and every row i
   of the result has ws_delay = to[i].ws_delay - from[i].ws_delay and
   num_pointings 1. *)
C19_CompareDelayTables ==
  (codecPc = "done" /\ codecIn.fn = "compare_delay_tables"
     /\ codecOut.status = "ok") =>
    /\ Len(codecIn.from.entries) = Len(codecIn.to.entries)
    /\ \A i \in 1..Len(codecIn.to.entries) :
         /\ codecIn.from.entries[i].rf_input = codecIn.to.entries[i].rf_input
         /\ codecOut.value.entries[i].ws_delay
              = codecIn.to.entries[i].ws_delay - codecIn.from.entries[i].ws_delay
         /\ codecOut.value.entries[i].num_pointings = 1

(* Position of a key in the alphabetical order of the keys explored. *)
AlphabeticalRank(k) ==
  CHOOSE i \in 1..Len(HeaderKeysAlphabetical) : HeaderKeysAlphabetical[i] = k

(* C20: serialise_header emits one line per header key, in the order of the
   registered field index with the unregistered keys last, keys of the same
   index in alphabetical order whatever the order they were parsed or set
   in, and the result is header_length bytes long. *)
C20_SerialiseHeaderOrder ==
  (codecPc = "done" /\ codecIn.fn = "serialise_header") =>
    LET out == codecOut.buf.content
    IN /\ Len(out) = Len(codecOut.header)
       /\ \A i \in 1..Len(codecOut.header) :
            \E j \in 1..Len(out) :
              out[j].k = codecOut.header[i].k /\ out[j].v = codecOut.header[i].v
       /\ \A i \in 1..Len(out) : \A j \in (i + 1)..Len(out) :
            /\ HeaderFieldIndex(out[i].k) <= HeaderFieldIndex(out[j].k)
            /\ HeaderFieldIndex(out[i].k) = HeaderFieldIndex(out[j].k) =>
                 AlphabeticalRank(out[i].k) < AlphabeticalRank(out[j].k)
       /\ codecOut.buf.byteLength = header_length

(* How often a line occurs in a list of lines. *)
Occurrences(lines, l) == Cardinality({i \in 1..Len(lines) : lines[i] = l})

(* C21: serialise_header(parse_header(buf)) holds exactly the KEY VALUE
   lines of buf, every value unchanged and unregistered keys retained; only
   the order of the lines and the NUL padding may differ. *)
C21_HeaderRoundTrip ==
  (codecPc = "done" /\ codecIn.fn = "header_round_trip") =>
    /\ Len(codecOut.lines) = Len(codecIn.lines)
    /\ \A i \in 1..Len(codecIn.lines) :
         Occurrences(codecOut.lines, codecIn.lines[i])
           = Occurrences(codecIn.lines, codecIn.lines[i])

----------------------------------------------------------------------------
(* Properties of the preamble *)

(* The bytes of a written preamble at file offsets [offset, offset + length),
   as far as the preamble reaches. *)
PreambleBytes(chunk, offset, length) ==
  SubSeq(chunk.buf, offset - desc.meta.header_length + 1,
         Min(offset - desc.meta.header_length + length, Len(chunk.buf)))

(* C22: in the preamble that write_subfile writes, the delay table, the
   packet map and the margin each appear in full at their declared offsets,
   one after the other without overlap, inside the first
   header_length + block_length bytes of the output; no section is cropped. *)
C22_PreambleSections ==
  \A j \in 1..Len(outfile) :
    outfile[j].kind = "preamble" =>
      LET m == desc.meta
      IN /\ PreambleBytes(outfile[j], m.dt_offset, m.dt_length)
              = SubSeq(desc.sections.dt, 1, m.dt_length)
         /\ PreambleBytes(outfile[j], m.udpmap_offset, m.udpmap_length)
              = SubSeq(desc.sections.udpmap, 1, m.udpmap_length)
         /\ PreambleBytes(outfile[j], m.margin_offset, m.margin_length)
              = SubSeq(desc.sections.margin, 1, m.margin_length)
         /\ Len(desc.sections.dt) = m.dt_length
         /\ Len(desc.sections.udpmap) = m.udpmap_length
         /\ Len(desc.sections.margin) = m.margin_length
         /\ m.header_length <= m.dt_offset
         /\ m.dt_offset + m.dt_length <= m.udpmap_offset
         /\ m.udpmap_offset + m.udpmap_length <= m.margin_offset
         /\ m.margin_offset + m.margin_length <= m.header_length + m.block_length

----------------------------------------------------------------------------
(* Properties of a failed read *)

(* The blocks resample has written are 1, 2, ... in this order. *)
ResampleWrittenPrefix == \A i \in 1..Len(rsOut) : rsOut[i].num = i

(* C23: when the read of input block k fails while the data is streamed,
   in any mode, write_subfile returns the failure, no output block k or
   later has been written, and the blocks written are 1..j in order, j < k;
   they stay in the output file. *)
C23_ReadFailure ==
  /\ (pc # "idle" /\ desc.sections.data /\ infile.failAt # 0) =>
       /\ \A j \in WrittenBlocks :
            /\ outfile[j].num < infile.failAt
            /\ outfile[j].num = Cardinality({i \in WrittenBlocks : i <= j})
       /\ pc = "returned" => result # "ok"
       /\ result = "err" => pc = "returned"
  /\ (rsPc # "idle" /\ rsIn.file.failAt # 0) =>
       /\ ResampleWrittenPrefix
       /\ Len(rsOut) < rsIn.file.failAt
       /\ rsPc = "returned" => rsResult = "err"

(* A read of block 3 has failed after blocks 1 and 2 were copied, and a
   resample has failed on the read of block 3 after writing block 1. *)
C23_Witness ==
  \/ /\ pc = "returned"
     /\ result = "err"
     /\ infile.failAt = 3
     /\ Cardinality(WrittenBlocks) = 2
  \/ /\ rsPc = "returned"
     /\ rsResult = "err"
     /\ rsIn.file.failAt = 3
     /\ Len(rsOut) = 1

----------------------------------------------------------------------------
(* Properties of replace with an unknown source *)

(* --map-all or an entry of --map names an id that is not a source of the
   subfile. *)
NamesUnknownSource(opts) ==
  \/ ~opts.replace_map_all.isNull /\ ~IsSource(opts.replace_map_all.val)
  \/ /\ ~opts.replace_map.isNull
     /\ \E i \in 1..Len(opts.replace_map.val) :
          ~IsSource(opts.replace_map.val[i][1]) \/ ~IsSource(opts.replace_map.val[i][2])

(* C24: replace with --map or --map-all naming an id that is not a source
   of the subfile fails and writes no data block; no line of the output is
   left empty or zero-filled in place of the unknown source. *)
C24_ReplaceUnknownSource ==
  (pc # "idle" /\ desc.mode = "remap" /\ NamesUnknownSource(desc.opts)) =>
    /\ WrittenBlocks = {}
    /\ pc = "returned" => result # "ok"

----------------------------------------------------------------------------
(* Properties of the return of write_subfile *)

(* C25: when write_subfile has returned success, every write it issued,
   the preamble write included, has completed and the output file is
   closed; this holds with and without a data section. *)
C25_ReturnAfterWritesAndClose ==
  (pc = "returned" /\ result = "ok") => (inflight = <<>> /\ handle = "closed")

----------------------------------------------------------------------------
(* Properties of the cache of an open subfile *)

(* What read_section returns for a section now, through the cache, is what
   the file holds now at the range the Metadata gives for the section. *)
SectionReadIsCurrent(name) ==
  LET r == cached_read_section(name, ctx_file, ctx_meta, cache)
      now == FileRead(ctx_file, SectionOffset(name, ctx_meta),
                      SectionLength(name, ctx_meta))
  IN r.status = "ok" =>
       /\ r.value.byteLength = SectionLength(name, ctx_meta)
       /\ r.value.content = now.content

(* C26: on an open subfile, after the reads of load_subfile and after the
   in-place writes of an upgrade, a read that hits the cache returns the
   bytes the file holds now at the range the Metadata now gives for the
   key; no cached section is stale. *)
C26_CacheCoherence ==
  (upc = "loaded" \/ (upc = "returned" /\ uresult = "ok")) =>
    \A name \in {"header", "dt", "udpmap", "margin"} : SectionReadIsCurrent(name)

----------------------------------------------------------------------------
(* Properties of the cache entries *)

(* C27: no key is held by more than one entry of the cache, whatever
   cache_add and cache_get calls were made. *)
C27_UniqueKeys ==
  \A i \in 1..Len(cache.entries) : \A j \in 1..Len(cache.entries) :
    cache.entries[i].key = cache.entries[j].key => i = j

(* C28: cache.used is the sum of the byte lengths of the buffers in
   cache.entries and lies between 0 and cache.capacity; a cache_add that is
   rejected and a cache_get that misses leave entries and used as they
   were. *)
C28_UsedIsSumOfEntries ==
  /\ cache.used = SumBytes(cache.entries)
  /\ 0 <= cache.used
  /\ cache.used <= cache.capacity
  /\ \A n \in 1..Len(hist) :
       (n = Len(hist) /\ (  (hist[n].op = "add" /\ ~hist[n].accepted)
                         \/ (hist[n].op = "get" /\ hist[n].isNull))) =>
         (cache.entries = prev.entries /\ cache.used = prev.used)

(* A 40-byte buffer has been rejected by a cache that holds entries, a get
   has missed in a cache that holds entries, and an add has evicted. *)
C28_Witness ==
  /\ Len(hist) >= 3
  /\ cache.entries # <<>>
  /\ \E n \in 1..Len(hist) : hist[n].op = "add" /\ ~hist[n].accepted
  /\ \E n \in 1..Len(hist) : hist[n].op = "add" /\ hist[n].evicted # <<>>
  /\ hist[Len(hist)].op = "get" /\ hist[Len(hist)].isNull

----------------------------------------------------------------------------
(* Frame of the upgrade *)

(* The positions in the body of a file laid out as m that belong to the data
   blocks 1..blocks_per_sub. *)
DataPositions(m) ==
  (m.data_offset - header_length + 1)..(m.data_offset - header_length + m.data_length)

(* Files f and g have the same byte, or both no byte, at body position i. *)
SameByte(f, g, i) ==
  /\ (i <= Len(f.body)) <=> (i <= Len(g.body))
  /\ i <= Len(f.body) => f.body[i] = g.body[i]

(* C29: upgrade writes only below data_offset: for a subfile loaded as
   version 1, every byte of the data blocks is the byte the file had when it
   was loaded, at every point of the upgrade and after it. *)
C29_UpgradeKeepsDataBlocks ==
  (upc # "closed" /\ uorig.meta.mwax_sub_version = 1) =>
    \A i \in DataPositions(uorig.meta) : SameByte(ctx_file, uorig.file, i)

----------------------------------------------------------------------------
(* The window of the repoint loop *)

(* The positions in rlog, up to position i, of the calls of kind op. *)
CallsUpTo(op, i) == {j \in 1..i : rlog[j].op = op}

(* C30: whenever write_time_shifted_data shifts block b, the current slot
   holds input block b, the previous slot input block b-1 (null for b = 1)
   and, for b below blocks_per_sub, the next slot input block b+1; the blocks
   are read from the input file once each in ascending order, blocks 1..b+1
   (1..b for the last block) by the time block b is shifted; and time_shift
   does not read the next slot for the last block. *)
C30_RepointWindow ==
  LET bps == desc.meta.blocks_per_sub
  IN /\ \A i \in 1..Len(rlog) :
          rlog[i].op = "read" => rlog[i].num = Cardinality(CallsUpTo("read", i))
     /\ \A i \in 1..Len(rlog) :
          rlog[i].op = "shift" =>
            LET b == rlog[i].num
            IN /\ b = Cardinality(CallsUpTo("shift", i))
               /\ b \in 1..bps
               /\ rlog[i].srcBlock = infile.blocks[b]
               /\ rlog[i].srcPrev = (IF b = 1 THEN NULL ELSE infile.blocks[b - 1])
               /\ b < bps => rlog[i].srcNext = infile.blocks[b + 1]
               /\ Cardinality(CallsUpTo("read", i)) = Min(b + 1, bps)
               /\ b = bps => ~rlog[i].nextRead
     /\ (rlog # <<>> /\ pc = "returned" /\ result = "ok") =>
          /\ Cardinality(CallsUpTo("read", Len(rlog))) = bps
          /\ Cardinality(CallsUpTo("shift", Len(rlog))) = bps

(* A repoint of three or more pairwise different blocks has finished; it
   moved a source back, so that lines have tails, and time_shift read the
   next slot for its first block. *)
C30_Witness ==
  /\ pc = "returned"
  /\ result = "ok"
  /\ desc.mode = "repoint"
  /\ desc.meta.blocks_per_sub >= 3
  /\ \A a \in 1..Len(infile.blocks) : \A b \in 1..Len(infile.blocks) :
       infile.blocks[a] = infile.blocks[b] => a = b
  /\ \E i \in 1..Len(rlog) : rlog[i].op = "shift" /\ rlog[i].nextRead
  /\ \E id \in 1..Len(desc.from) : desc.to[id] < desc.from[id]
  /\ Cardinality(CallsUpTo("shift", Len(rlog))) = desc.meta.blocks_per_sub

============================================================================
